---- MODULE Spec2Model ----
(***************************************************************************)
(* Model of the coffeediary-app aggregation logic.                         *)
(*                                                                         *)
(*   - EntriesPage (coffeediary/src/app/entries/page.tsx): mount-time      *)
(*     fetch, the filter/sort effect, the filter controls, resetFilters.   *)
(*   - CoffeeTrends (unnamed/part_003): the chart data functions.          *)
(*                                                                         *)
(* JavaScript strings are TLA+ strings; toLowerCase, trim and includes are *)
(* computed character by character.  The JavaScript value null of a        *)
(* string-typed field is the token `null' below, which is no string of the *)
(* modelled alphabet.  The Japanese roast-level literals are written in    *)
(* ASCII: "light" = 浅煎り, "medium_light" = 中浅煎り, "medium" = 中煎り,  *)
(* "medium_dark" = 中深煎り, "dark" = 深煎り, "other" = その他/不明.       *)
(***************************************************************************)
EXTENDS Integers, Sequences, FiniteSets, TLC

VARIABLES
    \* ---- backend ----
    db,                 \* rows of coffee_entries owned by the signed-in user
    \* ---- EntriesPage state (useState hooks) ----
    entries, filteredEntries, loading, error,
    searchTerm, originFilter, roastFilter, brewMethodFilter, ratingFilter, sortBy,
    origins, brewMethods,
    location,           \* window.location.href of the entries page
    \* ---- CoffeeTrends ----
    trendEntries,       \* the entries prop
    now,                \* new Date() at render time, [year, month] (month 0..11)
    rendered,           \* what the component returned: "none" | "placeholder" | "charts"
    roastLevels,        \* the levels object built by roastLevelData
    months,             \* the months object built by monthlyData
    ratings,            \* the ratings array built by ratingData
    tasteProfile,       \* the four averages built by tasteProfileData
    sortedMethods,      \* the [method, count] pairs kept by brewMethodData
    invoked,            \* the chart-data functions called by the render
    \* ---- DashboardPage state ----
    dashEntries, dashLoading, dashError,
    dashLocation,       \* window.location.href of the dashboard page
    stats,              \* the object returned by getStats at the last render
    \* ---- the page opened in the browser and the backend session ----
    route,              \* the route that was opened
    session,            \* the user of the identity provider's session, or null
    path,               \* where the router points now
    pc,                 \* the await the page's running operation is suspended at
    pageLoading,        \* the page's loading flag
    checking,           \* the auth page's checking flag
    pageError,          \* the page's error string
    failed,             \* the operation whose backend call failed last
    requests,           \* storage / table requests of the current submission
    hasImage,           \* a file is selected in the form (photoFile / avatar)
    userId,             \* ProfilePage userId
    avatarUrl,          \* ProfilePage avatarUrl
    \* ---- Home state ----
    user,               \* the user held by Home
    homeEntries,        \* the entries held by Home
    fetches,            \* calls of fetchEntries in flight, per user id
    \* ---- Header state ----
    isLoggedIn, userProfile, headerLoading,
    headerPc,           \* where checkAuth is: "mounting" | "idle" | "unmounted"
    profileFetches,     \* calls of fetchUserProfile in flight, per user id
    \* ---- components and their auth-state-change subscriptions ----
    mounted,            \* the mounted components among Home and Header
    subscriptions,      \* active subscriptions of each component
    \* ---- the avatars bucket and the users row, as handleSave leaves them ----
    bucket,             \* paths of the objects in the avatars bucket
    profileRow,         \* avatar_url of the user's row in the users table
    clock,              \* Date.now() of the last save
    beforeSave,         \* bucket and avatar_url when handleSave was called
    \* ---- RecordPage: the evaluation sliders and the coffee_entries table ----
    sliders,            \* sourness, sweetness, bitterness, richness, rating
    stored,             \* the rows inserted through the form
    \* ---- AuthPage, handleAuth ----
    thrown,             \* the value caught by the handler, by its message
    profile             \* the users row selected after the sign-in

entriesVars == <<db, entries, filteredEntries, loading, error, searchTerm, originFilter,
                 roastFilter, brewMethodFilter, ratingFilter, sortBy, origins,
                 brewMethods, location>>
chartVars == <<roastLevels, months, ratings, tasteProfile, sortedMethods>>
trendsVars == <<trendEntries, now, rendered, chartVars, invoked>>
dashVars == <<dashEntries, dashLoading, dashError, dashLocation, stats>>
authFormVars == <<thrown, profile>>
storageVars == <<bucket, profileRow, clock, beforeSave>>
profileVars == <<userId, avatarUrl, storageVars>>
recordVars == <<sliders, stored>>
homeVars == <<user, homeEntries, fetches>>
headerVars == <<isLoggedIn, userProfile, headerLoading, headerPc, profileFetches>>
lifecycleVars == <<mounted, subscriptions>>
componentVars == <<homeVars, headerVars, lifecycleVars>>
pagesVars == <<route, session, path, pc, pageLoading, checking, pageError, failed,
               requests, hasImage, profileVars, authFormVars, recordVars,
               componentVars>>
\* what the entries page never touches
nonEntriesVars == <<trendsVars, dashVars, pagesVars>>
vars == <<entriesVars, trendsVars, dashVars, pagesVars>>

-----------------------------------------------------------------------------
(* Bounds *)

MaxEntries == 3          \* rows fetched by the entries page
MaxTrendEntries == 3     \* length of the entries prop of CoffeeTrends
MaxDashEntries == 3      \* rows fetched by the dashboard page
MaxSaves == 2            \* calls of handleSave on the profile page
MaxInFlight == 2         \* calls of fetchEntries / fetchUserProfile in flight

-----------------------------------------------------------------------------
(* JavaScript values and string primitives *)

null == "<null>"
undefined == "<undefined>"

ROAST_LEVELS == <<"light", "medium_light", "medium", "medium_dark", "dark">>

Range(s) == {s[i] : i \in 1..Len(s)}

\* JS truthiness of a string | null value
Truthy(s) == s # null /\ s # undefined /\ s # ""

UpperCaseLetters == "ABCDEFGHIJKLMNOPQRSTUVWXYZ"
CharAt(s, i) == SubSeq(s, i, i)

\* the case mapping of the ASCII letters, tabulated once
LowerTable ==
    [c \in {CharAt(UpperCaseLetters, i) : i \in 1..Len(UpperCaseLetters)} |->
        CharAt("abcdefghijklmnopqrstuvwxyz",
               CHOOSE i \in 1..Len(UpperCaseLetters) : CharAt(UpperCaseLetters, i) = c)]

RECURSIVE toLowerCase(_)
toLowerCase(s) ==
    IF Len(s) = 0 THEN ""
    ELSE LET c == CharAt(s, 1)
         IN (IF c \in DOMAIN LowerTable THEN LowerTable[c] ELSE c)
                \o toLowerCase(SubSeq(s, 2, Len(s)))

RECURSIVE trimStart(_)
trimStart(s) ==
    IF Len(s) > 0 /\ CharAt(s, 1) \in {" ", "\t"}
    THEN trimStart(SubSeq(s, 2, Len(s)))
    ELSE s

RECURSIVE trimEnd(_)
trimEnd(s) ==
    IF Len(s) > 0 /\ CharAt(s, Len(s)) \in {" ", "\t"}
    THEN trimEnd(SubSeq(s, 1, Len(s) - 1))
    ELSE s

trim(s) == trimEnd(trimStart(s))

\* String.prototype.includes
includes(s, t) ==
    \E i \in 1..(Len(s) - Len(t) + 1) : SubSeq(s, i, i + Len(t) - 1) = t

\* entry.field?.toLowerCase().includes(term): undefined (falsy) on null
OptLowerIncludes(field, term) ==
    IF field = null THEN FALSE ELSE includes(toLowerCase(field), term)

-----------------------------------------------------------------------------
(* The rows the backend may hold *)

Row(i, n, o, r, b, c, g) ==
    [id |-> i, bean_name |-> n, bean_origin |-> o, roast_level |-> r,
     brew_method |-> b, created_at |-> c, rating |-> g]

\* new Date(created_at).getTime()
getTime(e) == e.created_at

\* .order("created_at", { ascending: false }): every order of the rows that is
\* non-increasing in created_at (the order among equal timestamps is the
\* backend's choice)
OrderedSelects(rows) ==
    { s \in [1..Cardinality(rows) -> rows] :
        /\ \A i, j \in 1..Cardinality(rows) : i # j => s[i] # s[j]
        /\ \A i \in 1..(Cardinality(rows) - 1) : getTime(s[i]) >= getTime(s[i + 1]) }

-----------------------------------------------------------------------------
(* EntriesPage: option lists derived by fetchEntries *)

\* fault variant of Distinct: the values are not passed through a Set
Distinct_keepAll(list) == list

\* Array.from(new Set(list)): first occurrences, in order
RECURSIVE Distinct(_)
Distinct(list) ==
    IF Len(list) = 0 THEN <<>>
    ELSE LET init == Distinct(SubSeq(list, 1, Len(list) - 1))
             x == list[Len(list)]
         IN IF x \in Range(init) THEN init ELSE Append(init, x)

NonBlank(v) == Truthy(v) /\ trim(v) # ""

uniqueOrigins(fetched) ==
    Distinct(SelectSeq([i \in 1..Len(fetched) |-> fetched[i].bean_origin], NonBlank))

uniqueBrewMethods(fetched) ==
    Distinct(SelectSeq([i \in 1..Len(fetched) |-> fetched[i].brew_method], NonBlank))

-----------------------------------------------------------------------------
(* EntriesPage: the filter/sort effect *)

\* fault variant of KeywordMatch: the origin is not searched
KeywordMatch_nameOnly(entry, term) ==
    OptLowerIncludes(entry.bean_name, term)

KeywordMatch(entry, term) ==
    OptLowerIncludes(entry.bean_name, term) \/ OptLowerIncludes(entry.bean_origin, term)

KeywordStep(result, term) ==
    IF trim(term) # ""
    THEN LET t == toLowerCase(term)
             Keep(entry) == KeywordMatch(entry, t)
         IN SelectSeq(result, Keep)
    ELSE result

\* fault variant of OriginStep: compares without regard to case
OriginStep_ignoreCase(result, f) ==
    IF Truthy(f)
    THEN LET Keep(entry) == /\ entry.bean_origin # null
                            /\ toLowerCase(entry.bean_origin) = toLowerCase(f)
         IN SelectSeq(result, Keep)
    ELSE result

OriginStep(result, f) ==
    IF Truthy(f)
    THEN LET Keep(entry) == entry.bean_origin = f IN SelectSeq(result, Keep)
    ELSE result

RoastStep(result, f) ==
    IF Truthy(f)
    THEN LET Keep(entry) == entry.roast_level = f IN SelectSeq(result, Keep)
    ELSE result

\* fault variant of BrewStep: filters the base list instead of the running result
BrewStep_fromBase(result, f) ==
    IF Truthy(f)
    THEN LET Keep(entry) == entry.brew_method = f IN SelectSeq(entries, Keep)
    ELSE result

BrewStep(result, f) ==
    IF Truthy(f)
    THEN LET Keep(entry) == entry.brew_method = f IN SelectSeq(result, Keep)
    ELSE result

\* fault variant of RatingStep: strictly greater than the threshold
RatingStep_strict(result, t) ==
    IF t > 0
    THEN LET Keep(entry) == entry.rating > t IN SelectSeq(result, Keep)
    ELSE result

RatingStep(result, t) ==
    IF t > 0
    THEN LET Keep(entry) == entry.rating >= t IN SelectSeq(result, Keep)
    ELSE result

\* fault variant of Compare: the date comparator subtracts the wrong way round
Compare_dateAscending(a, b, mode) ==
    IF mode = "rating" THEN b.rating - a.rating ELSE getTime(a) - getTime(b)

\* fault variant of Compare: the rating comparator subtracts the wrong way round
Compare_ratingAscending(a, b, mode) ==
    IF mode = "rating" THEN a.rating - b.rating ELSE getTime(b) - getTime(a)

\* the comparator handed to Array.prototype.sort
Compare(a, b, mode) ==
    IF mode = "rating" THEN b.rating - a.rating ELSE getTime(b) - getTime(a)

\* Array.prototype.sort is stable: x goes behind every element that does not
\* compare greater than it
RECURSIVE InsertSorted(_, _, _)
InsertSorted(sorted, x, mode) ==
    IF Len(sorted) = 0 THEN <<x>>
    ELSE IF Compare(sorted[Len(sorted)], x, mode) <= 0
         THEN Append(sorted, x)
         ELSE Append(InsertSorted(SubSeq(sorted, 1, Len(sorted) - 1), x, mode),
                     sorted[Len(sorted)])

RECURSIVE SortStep(_, _)
SortStep(result, mode) ==
    IF Len(result) = 0 THEN <<>>
    ELSE InsertSorted(SortStep(SubSeq(result, 1, Len(result) - 1), mode),
                      result[Len(result)], mode)

FilterSortEffect(base, term, of, rf, bf, rt, sb) ==
    SortStep(RatingStep(BrewStep(RoastStep(OriginStep(KeywordStep(base, term), of), rf), bf), rt), sb)

-----------------------------------------------------------------------------
(* EntriesPage: actions *)

EntriesInit ==
    /\ db \in {rows \in SUBSET { Row(1, "Mo",  "Et", "light", "V",  3, 5),
                                  Row(2, "Et",  "",   "",      " ",  3, 3),
                                  Row(3, "o K", "et", "dark",  "V",  2, 5),
                                  Row(4, "Mo",  " ",  null,    "",   2, 1),
                                  Row(5, "te",  null, "light", null, 1, 3) } :
                    Cardinality(rows) <= MaxEntries}
    /\ entries = <<>>
    /\ filteredEntries = <<>>
    /\ loading = TRUE
    /\ error = null
    /\ searchTerm = ""
    /\ originFilter = ""
    /\ roastFilter = ""
    /\ brewMethodFilter = ""
    /\ ratingFilter = 0
    /\ sortBy = "date"
    /\ origins = <<>>
    /\ brewMethods = <<>>
    /\ location = "/entries"

\* fetchEntries, getUser() answered without a user
FetchNoUser ==
    /\ loading
    /\ location' = "/auth"
    /\ loading' = FALSE
    /\ UNCHANGED <<db, entries, filteredEntries, error, searchTerm, originFilter,
                   roastFilter, brewMethodFilter, ratingFilter, sortBy, origins,
                   brewMethods>>

\* fetchEntries, the select (or getUser) failed
FetchError ==
    /\ loading
    /\ \E msg \in {"backend error", "unknown error"} : error' = msg
    /\ loading' = FALSE
    /\ UNCHANGED <<db, entries, filteredEntries, searchTerm, originFilter,
                   roastFilter, brewMethodFilter, ratingFilter, sortBy, origins,
                   brewMethods, location>>

\* fetchEntries, the select answered; the filter/sort effect re-runs because
\* entries changed
FetchOk ==
    /\ loading
    /\ \E fetched \in OrderedSelects(db) :
        /\ entries' = fetched
        /\ origins' = uniqueOrigins(fetched)
        /\ brewMethods' = uniqueBrewMethods(fetched)
        /\ filteredEntries' = FilterSortEffect(fetched, searchTerm, originFilter,
                                   roastFilter, brewMethodFilter, ratingFilter, sortBy)
    /\ loading' = FALSE
    /\ UNCHANGED <<db, error, searchTerm, originFilter, roastFilter,
                   brewMethodFilter, ratingFilter, sortBy, location>>

\* the filter controls are rendered only past the loading and error screens
\* and when there is at least one entry
ControlsShown ==
    /\ ~loading
    /\ error = null
    /\ Len(entries) # 0

SetSearchTerm ==
    /\ ControlsShown
    /\ \E v \in {"", " ", "ET", "o "} :
        /\ searchTerm' = v
        /\ filteredEntries' = FilterSortEffect(entries, v, originFilter, roastFilter,
                                   brewMethodFilter, ratingFilter, sortBy)
    /\ UNCHANGED <<db, entries, loading, error, originFilter, roastFilter,
                   brewMethodFilter, ratingFilter, sortBy, origins, brewMethods,
                   location, nonEntriesVars>>

SetOriginFilter ==
    /\ ControlsShown
    /\ \E v \in {""} \cup Range(origins) :
        /\ originFilter' = v
        /\ filteredEntries' = FilterSortEffect(entries, searchTerm, v, roastFilter,
                                   brewMethodFilter, ratingFilter, sortBy)
    /\ UNCHANGED <<db, entries, loading, error, searchTerm, roastFilter,
                   brewMethodFilter, ratingFilter, sortBy, origins, brewMethods,
                   location, nonEntriesVars>>

SetRoastFilter ==
    /\ ControlsShown
    /\ \E v \in {""} \cup Range(ROAST_LEVELS) :
        /\ roastFilter' = v
        /\ filteredEntries' = FilterSortEffect(entries, searchTerm, originFilter, v,
                                   brewMethodFilter, ratingFilter, sortBy)
    /\ UNCHANGED <<db, entries, loading, error, searchTerm, originFilter,
                   brewMethodFilter, ratingFilter, sortBy, origins, brewMethods,
                   location, nonEntriesVars>>

SetBrewMethodFilter ==
    /\ ControlsShown
    /\ \E v \in {""} \cup Range(brewMethods) :
        /\ brewMethodFilter' = v
        /\ filteredEntries' = FilterSortEffect(entries, searchTerm, originFilter,
                                   roastFilter, v, ratingFilter, sortBy)
    /\ UNCHANGED <<db, entries, loading, error, searchTerm, originFilter,
                   roastFilter, ratingFilter, sortBy, origins, brewMethods,
                   location, nonEntriesVars>>

\* fault variant of SetRatingFilter: the effect narrows the list already shown
SetRatingFilter_cumulative ==
    /\ ControlsShown
    /\ \E v \in 0..5 :
        /\ ratingFilter' = v
        /\ filteredEntries' = FilterSortEffect(filteredEntries, searchTerm, originFilter,
                                   roastFilter, brewMethodFilter, v, sortBy)
    /\ UNCHANGED <<db, entries, loading, error, searchTerm, originFilter,
                   roastFilter, brewMethodFilter, sortBy, origins, brewMethods,
                   location, nonEntriesVars>>

SetRatingFilter ==
    /\ ControlsShown
    /\ \E v \in 0..5 :
        /\ ratingFilter' = v
        /\ filteredEntries' = FilterSortEffect(entries, searchTerm, originFilter,
                                   roastFilter, brewMethodFilter, v, sortBy)
    /\ UNCHANGED <<db, entries, loading, error, searchTerm, originFilter,
                   roastFilter, brewMethodFilter, sortBy, origins, brewMethods,
                   location, nonEntriesVars>>

SetSortBy ==
    /\ ControlsShown
    /\ \E v \in {"date", "rating"} :
        /\ sortBy' = v
        /\ filteredEntries' = FilterSortEffect(entries, searchTerm, originFilter,
                                   roastFilter, brewMethodFilter, ratingFilter, v)
    /\ UNCHANGED <<db, entries, loading, error, searchTerm, originFilter,
                   roastFilter, brewMethodFilter, ratingFilter, origins, brewMethods,
                   location, nonEntriesVars>>

resetFilters ==
    /\ ControlsShown
    /\ searchTerm' = ""
    /\ originFilter' = ""
    /\ roastFilter' = ""
    /\ brewMethodFilter' = ""
    /\ ratingFilter' = 0
    /\ sortBy' = "date"
    /\ filteredEntries' = FilterSortEffect(entries, "", "", "", "", 0, "date")
    /\ UNCHANGED <<db, entries, loading, error, origins, brewMethods, location,
                   nonEntriesVars>>

-----------------------------------------------------------------------------
(* JavaScript objects used as dictionaries (Record<string, number>)        *)
(*                                                                         *)
(* An object literal is the sequence of its own properties in insertion    *)
(* order (the order of Object.keys / Object.values); it inherits the       *)
(* members of Object.prototype.  A property value is a count or NaN.       *)

NaN == -1      \* counts are never negative: -1 stands for NaN

JsAdd(a, b) == IF a = NaN \/ b = NaN THEN NaN ELSE a + b

ObjectPrototypeMembers ==
    {"constructor", "toString", "toLocaleString", "valueOf", "hasOwnProperty",
     "isPrototypeOf", "propertyIsEnumerable", "__defineGetter__",
     "__defineSetter__", "__lookupGetter__", "__lookupSetter__", "__proto__"}

\* a canonical numeric string ("60", not "060"): an integer-index property key
IsIntegerKey(k) ==
    /\ Len(k) > 0
    /\ \A i \in 1..Len(k) : SubSeq(k, i, i) \in {"0", "1", "2", "3", "4", "5", "6", "7", "8", "9"}
    /\ (Len(k) = 1 \/ SubSeq(k, 1, 1) # "0")

RECURSIVE KeyNumber(_)
KeyNumber(k) ==
    IF Len(k) = 0 THEN 0
    ELSE LET last == SubSeq(k, Len(k), Len(k))
         IN 10 * KeyNumber(SubSeq(k, 1, Len(k) - 1))
              + (CHOOSE d \in 0..9 : ToString(d) = last)

RECURSIVE AscendingKeys(_)
AscendingKeys(props) ==
    IF props = {} THEN <<>>
    ELSE LET least == CHOOSE q \in props :
                        \A r \in props : KeyNumber(q.key) <= KeyNumber(r.key)
         IN <<least>> \o AscendingKeys(props \ {least})

\* Object.entries(obj): integer-index keys in ascending numeric order, then the
\* other string keys in insertion order
ObjectEntries(obj) ==
    AscendingKeys({obj[i] : i \in {j \in 1..Len(obj) : IsIntegerKey(obj[j].key)}})
        \o SelectSeq(obj, LAMBDA q : ~IsIntegerKey(q.key))

ObjectKeys(obj) == [i \in 1..Len(obj) |-> ObjectEntries(obj)[i].key]
ObjectValues(obj) == [i \in 1..Len(obj) |-> ObjectEntries(obj)[i].value]

HasOwn(obj, k) == \E i \in 1..Len(obj) : obj[i].key = k

OwnValue(obj, k) == obj[CHOOSE i \in 1..Len(obj) : obj[i].key = k].value

\* obj[k] !== undefined
IsDefined(obj, k) == HasOwn(obj, k) \/ k \in ObjectPrototypeMembers

\* obj[k] = v: writes the own property, creating it at the end when absent;
\* the __proto__ setter ignores a value that is not an object
SetProperty(obj, k, v) ==
    IF HasOwn(obj, k)
    THEN [i \in 1..Len(obj) |-> IF obj[i].key = k THEN [key |-> k, value |-> v] ELSE obj[i]]
    ELSE IF k = "__proto__" THEN obj
    ELSE Append(obj, [key |-> k, value |-> v])

\* obj[k]++
Increment(obj, k) ==
    SetProperty(obj, k, JsAdd(IF HasOwn(obj, k) THEN OwnValue(obj, k) ELSE NaN, 1))

\* a string that is not a numeral, as produced by <function> + 1: it is truthy
\* and ToNumber of it is NaN
NonNumeric == -2

ToNumber(v) == IF v = NonNumeric THEN NaN ELSE v

\* v || 0 for a number v
OrZero(v) == IF v = 0 \/ v = NaN THEN 0 ELSE v

\* a / b as the exact quotient; den = 0 is NaN (0 / 0) or Infinity
JsDiv(a, b) == [num |-> a, den |-> b]

\* Number.prototype.toFixed(1) of a non-negative quotient: the closest tenth,
\* the larger one when two are equally close
toFixed1_noDigits(q) == IF q.den = 0 THEN "NaN" ELSE ToString(q.num \div q.den)
toFixed1(q) ==
    IF q.den = 0 THEN (IF q.num = 0 THEN "NaN" ELSE "Infinity")
    ELSE LET tenths == (20 * q.num + q.den) \div (2 * q.den)
         IN ToString(tenths \div 10) \o "." \o ToString(tenths % 10)

\* (a, b) => b[1] - a[1], NaN read as +0 by Array.prototype.sort
CompareCounts(a, b) ==
    IF ToNumber(a.value) = NaN \/ ToNumber(b.value) = NaN THEN 0
    ELSE ToNumber(b.value) - ToNumber(a.value)

RECURSIVE InsertByCount(_, _)
InsertByCount(sorted, x) ==
    IF Len(sorted) = 0 THEN <<x>>
    ELSE IF CompareCounts(sorted[Len(sorted)], x) > 0
         THEN Append(InsertByCount(SubSeq(sorted, 1, Len(sorted) - 1), x),
                     sorted[Len(sorted)])
         ELSE Append(sorted, x)

RECURSIVE StableSortByCount(_)
StableSortByCount(pairs) ==
    IF Len(pairs) = 0 THEN <<>>
    ELSE InsertByCount(StableSortByCount(SubSeq(pairs, 1, Len(pairs) - 1)),
                       pairs[Len(pairs)])

\* Array.prototype.sort by count, descending: stable for a consistent
\* comparator, an implementation-defined order of the same elements otherwise
SortByCount(pairs) ==
    \* the comparator is consistent when "compares equal" is transitive
    IF \A i, j, k \in 1..Len(pairs) :
           CompareCounts(pairs[i], pairs[j]) = 0 /\ CompareCounts(pairs[j], pairs[k]) = 0
               => CompareCounts(pairs[i], pairs[k]) = 0
    THEN {StableSortByCount(pairs)}
    ELSE {[i \in 1..Len(pairs) |-> pairs[f[i]]] : f \in Permutations(1..Len(pairs))}

-----------------------------------------------------------------------------
(* CoffeeTrends: chart data *)

OTHER_LEVEL == "other"

\* taste = <<sourness, sweetness, bitterness, richness>>
TrendRow(r, y, m, b, o, rt, taste) ==
    [roast_level |-> r, created_at |-> [year |-> y, month |-> m],
     brew_method |-> b, bean_origin |-> o, rating |-> rt,
     sourness |-> taste[1], sweetness |-> taste[2],
     bitterness |-> taste[3], richness |-> taste[4]]

\* entries the dashboard may hand to the component (month 0 = January)
TrendPool ==
    { TrendRow("light",        2024, 5,  "V",         "Et",        5, <<1, 2, 3, 4>>),
      TrendRow("medium_light", 2024, 0,  "F",         "Co",        4, <<5, 5, 5, 5>>),
      TrendRow("medium",       2023, 11, "V",         "Co",        3, <<3, 3, 3, 3>>),
      TrendRow("medium_dark",  2023, 5,  "F",         "Et",        0, <<2, 4, 1, 5>>),
      TrendRow("dark",         2023, 7,  null,        "",          6, <<0, 1, 2, 3>>),
      TrendRow("",             2024, 5,  "60",        "Et",        1, <<3, 3, 3, 3>>),
      TrendRow(null,           2024, 0,  "toString",  null,        2, <<4, 4, 4, 4>>),
      TrendRow("unknown",      2023, 11, "__proto__", "60",        5, <<1, 1, 1, 1>>),
      TrendRow("toString",     2024, 5,  "",          "valueOf",   3, <<2, 2, 2, 2>>),
      TrendRow("__proto__",    2024, 0,  null,        "__proto__", 4, <<5, 4, 3, 2>>) }

\* wall-clock months at which the component renders
RenderMonths == { [year |-> 2024, month |-> 5], [year |-> 2024, month |-> 1] }

RECURSIVE roastLevelLoop(_, _)
roastLevelLoop(levels, list) ==
    IF Len(list) = 0 THEN levels
    ELSE LET entry == Head(list)
         IN roastLevelLoop(
                IF Truthy(entry.roast_level) /\ IsDefined(levels, entry.roast_level)
                THEN Increment(levels, entry.roast_level)
                ELSE Increment(levels, OTHER_LEVEL),
                Tail(list))

roastLevelData(list) ==
    roastLevelLoop(
        <<[key |-> "light", value |-> 0], [key |-> "medium_light", value |-> 0],
          [key |-> "medium", value |-> 0], [key |-> "medium_dark", value |-> 0],
          [key |-> "dark", value |-> 0], [key |-> OTHER_LEVEL, value |-> 0]>>,
        list)

\* new Date(year, monthIndex, 1): a month index outside 0..11 carries into the year
NewDate(year, monthIndex) ==
    LET n == year * 12 + monthIndex
    IN [year |-> n \div 12, month |-> n % 12]

\* toLocaleDateString("ja-JP", { month: "short" }): the month number followed
\* by the month sign (written "m"); the year is not part of the label
monthName(d) == ToString(d.month + 1) \o "m"

RECURSIVE monthLabelsLoop(_, _, _)
monthLabelsLoop(acc, i, today) ==
    IF i < 0 THEN acc
    ELSE monthLabelsLoop(
            SetProperty(acc, monthName(NewDate(today.year, today.month - i)), 0),
            i - 1, today)

RECURSIVE monthCountLoop(_, _)
monthCountLoop(acc, list) ==
    IF Len(list) = 0 THEN acc
    ELSE LET name == monthName(Head(list).created_at)
         IN monthCountLoop(IF IsDefined(acc, name) THEN Increment(acc, name) ELSE acc,
                           Tail(list))

monthlyData(list, today) == monthCountLoop(monthLabelsLoop(<<>>, 5, today), list)

\* entry.rating >= 1 && entry.rating <= 5
RatingInRange_upTo4(r) == r >= 1 /\ r <= 4
RatingInRange(r) == r >= 1 /\ r <= 5

RECURSIVE ratingLoop(_, _)
ratingLoop(acc, list) ==
    IF Len(list) = 0 THEN acc
    ELSE LET r == Head(list).rating
         IN ratingLoop(IF RatingInRange(r) THEN [acc EXCEPT ![r] = acc[r] + 1] ELSE acc,
                       Tail(list))

\* ratings[entry.rating - 1]++ on [0, 0, 0, 0, 0]; position r here is index r - 1
ratingData(list) == ratingLoop(<<0, 0, 0, 0, 0>>, list)

RECURSIVE tasteSum(_, _)
tasteSum(list, attr) ==
    IF Len(list) = 0 THEN 0
    ELSE tasteSum(SubSeq(list, 1, Len(list) - 1), attr) + OrZero(list[Len(list)][attr])

\* const count = entries.length || 1
tasteCount(list) == IF Len(list) = 0 THEN 1 ELSE Len(list)

tasteProfileData(list) ==
    [sourness   |-> JsDiv(tasteSum(list, "sourness"), tasteCount(list)),
     sweetness  |-> JsDiv(tasteSum(list, "sweetness"), tasteCount(list)),
     bitterness |-> JsDiv(tasteSum(list, "bitterness"), tasteCount(list)),
     richness   |-> JsDiv(tasteSum(list, "richness"), tasteCount(list))]

RECURSIVE brewMethodLoop(_, _)
brewMethodLoop(methods, list) ==
    IF Len(list) = 0 THEN methods
    ELSE LET k == Head(list).brew_method
         IN brewMethodLoop(
                IF Truthy(k)
                \* methods[k] is truthy: an inherited member is a function
                \* or an object
                THEN Increment(IF (IF HasOwn(methods, k)
                                   THEN OwnValue(methods, k) # 0 /\ OwnValue(methods, k) # NaN
                                   ELSE k \in ObjectPrototypeMembers)
                               THEN methods
                               ELSE SetProperty(methods, k, 0), k)
                ELSE methods,
                Tail(list))

\* the sortedMethods the function may build (one unless the sort is left to
\* the implementation)
brewMethodData(list) ==
    \* .slice(0, 5)
    {SubSeq(sorted, 1, IF Len(sorted) < 5 THEN Len(sorted) ELSE 5) :
        sorted \in SortByCount(ObjectEntries(brewMethodLoop(<<>>, list)))}

-----------------------------------------------------------------------------
(* CoffeeTrends: actions *)

ChartFunctions ==
    {"ratingData", "roastLevelData", "monthlyData", "tasteProfileData", "brewMethodData"}

\* the value of the chart state before any chart is computed
NoTasteProfile ==
    [sourness |-> JsDiv(0, 1), sweetness |-> JsDiv(0, 1),
     bitterness |-> JsDiv(0, 1), richness |-> JsDiv(0, 1)]

\* if (entries.length < 3)
TooFewEntries_upTo3(list) == Len(list) <= 3
TooFewEntries(list) == Len(list) < 3

\* the body of the component for the entries prop list, rendered at today
RenderTrends(list, today) ==
    IF TooFewEntries(list)
    THEN /\ rendered' = "placeholder"
         /\ invoked' = {}
         /\ UNCHANGED chartVars
    ELSE /\ rendered' = "charts"
         /\ invoked' = ChartFunctions
         /\ ratings' = ratingData(list)
         /\ roastLevels' = roastLevelData(list)
         /\ months' = monthlyData(list, today)
         /\ tasteProfile' = tasteProfileData(list)
         /\ sortedMethods' \in brewMethodData(list)

TrendsIdle ==
    /\ trendEntries = <<>>
    /\ now = [year |-> 2024, month |-> 0]
    /\ rendered = "none"
    /\ roastLevels = <<>>
    /\ months = <<>>
    /\ ratings = <<>>
    /\ tasteProfile = NoTasteProfile
    /\ sortedMethods = <<>>
    /\ invoked = {}

TrendsInit ==
    /\ trendEntries \in UNION {[1..n -> TrendPool] : n \in 0..MaxTrendEntries}
    /\ now \in RenderMonths
    /\ rendered = "none"
    /\ roastLevels = <<>>
    /\ months = <<>>
    /\ ratings = <<>>
    /\ tasteProfile = NoTasteProfile
    /\ sortedMethods = <<>>
    /\ invoked = {}

\* fewer than three entries: the notice is returned, no chart data is computed
RenderPlaceholder ==
    /\ rendered = "none"
    /\ TooFewEntries(trendEntries)
    /\ RenderTrends(trendEntries, now)
    /\ UNCHANGED <<trendEntries, now>>

RenderCharts ==
    /\ rendered = "none"
    /\ ~TooFewEntries(trendEntries)
    /\ RenderTrends(trendEntries, now)
    /\ UNCHANGED <<trendEntries, now>>

-----------------------------------------------------------------------------
(* DashboardPage *)

NONE_LABEL == "nashi"       \* the marker shown when nothing was counted
MonthIndex(d) == d.year * 12 + d.month

\* results of the select: .order("created_at", { ascending: false })
DashData ==
    \* rows the backend can hold: rating is CHECKed to lie in 1..5
    {data \in UNION {[1..n -> {row \in TrendPool : row.rating \in 1..5}] :
                        n \in 0..MaxDashEntries} :
        \A i \in 1..(Len(data) - 1) :
            MonthIndex(data[i].created_at) >= MonthIndex(data[i + 1].created_at)}

RECURSIVE ratingSum(_)
ratingSum(list) ==
    IF Len(list) = 0 THEN 0
    ELSE ratingSum(SubSeq(list, 1, Len(list) - 1)) + list[Len(list)].rating

\* totalEntries || 1
ratingCount_unguarded(list) == Len(list)
ratingCount(list) == IF Len(list) = 0 THEN 1 ELSE Len(list)

\* counts[k] = (counts[k] || 0) + 1: an inherited member is truthy and adding
\* 1 to it gives a string
CountUp(counts, k) ==
    SetProperty(counts, k,
        IF HasOwn(counts, k)
        THEN (IF OwnValue(counts, k) = NonNumeric THEN NonNumeric
              ELSE OrZero(OwnValue(counts, k)) + 1)
        ELSE IF k \in ObjectPrototypeMembers THEN NonNumeric
        ELSE 1)

RECURSIVE countLoop(_, _, _)
countLoop(counts, list, field) ==
    IF Len(list) = 0 THEN counts
    ELSE LET k == Head(list)[field]
         IN countLoop(IF Truthy(k) THEN CountUp(counts, k) ELSE counts,
                      Tail(list), field)

\* Object.entries(counts).sort(...).shift(), then top ? top[0] : marker
TopKeys(counts) ==
    {IF Len(sorted) = 0 THEN NONE_LABEL ELSE sorted[1].key :
        sorted \in SortByCount(ObjectEntries(counts))}

thisMonthCount(list, today) ==
    Cardinality({i \in 1..Len(list) :
        /\ list[i].created_at.month = today.month
        /\ list[i].created_at.year = today.year})

\* the stats objects getStats may return (one unless a sort is left to the
\* implementation)
getStats(list, today) ==
    {[totalEntries |-> Len(list),
      avgRating |-> toFixed1(JsDiv(ratingSum(list), ratingCount(list))),
      topMethod |-> m,
      topOrigin |-> o,
      thisMonth |-> thisMonthCount(list, today)] :
        m \in TopKeys(countLoop(<<>>, list, "brew_method")),
        o \in TopKeys(countLoop(<<>>, list, "bean_origin"))}

\* what the page returns: the loading text, the error text, the "no records
\* yet" notice, or the summary with the charts
DashView ==
    IF dashLoading THEN "loading"
    ELSE IF dashError # null THEN "error"
    ELSE IF Len(dashEntries) = 0 THEN "empty"
    ELSE "summary"

\* the text after the star in the average-rating card; the card is part of
\* the summary only
DisplayedAverage == IF DashView = "summary" THEN stats.avgRating ELSE null

DashIdle ==
    /\ dashEntries = <<>>
    /\ dashLoading = TRUE
    /\ dashError = null
    /\ dashLocation = "/dashboard"
    /\ stats = [totalEntries |-> 0, avgRating |-> "", topMethod |-> "",
                topOrigin |-> "", thisMonth |-> 0]

DashInit ==
    /\ DashIdle
    /\ trendEntries = <<>>
    /\ now \in RenderMonths
    /\ rendered = "none"
    /\ roastLevels = <<>>
    /\ months = <<>>
    /\ ratings = <<>>
    /\ tasteProfile = NoTasteProfile
    /\ sortedMethods = <<>>
    /\ invoked = {}

\* getUser() resolves without a user: the page leaves for /auth, and the
\* finally block still clears loading, so the page renders once with no entries
DashFetchNoUser ==
    /\ dashLoading
    /\ dashLocation' = "/auth"
    /\ dashLoading' = FALSE
    /\ stats' \in getStats(dashEntries, now)
    /\ UNCHANGED <<dashEntries, dashError, trendsVars>>

\* the select fails: the error screen is returned before getStats is called
DashFetchError ==
    /\ dashLoading
    /\ dashError' = "fetch failed"
    /\ dashLoading' = FALSE
    /\ UNCHANGED <<dashEntries, dashLocation, stats, trendsVars>>

\* the select succeeds: the page renders the notice, or the summary with
\* <CoffeeTrends entries={entries} />
DashFetchOk ==
    /\ dashLoading
    /\ \E data \in DashData :
         /\ dashEntries' = data
         /\ dashLoading' = FALSE
         /\ stats' \in getStats(data, now)
         /\ IF Len(data) = 0
            THEN UNCHANGED trendsVars
            ELSE /\ trendEntries' = data
                 /\ RenderTrends(data, now)
                 /\ UNCHANGED now
    /\ UNCHANGED <<dashError, dashLocation>>

-----------------------------------------------------------------------------
(* Pages: mount-time checks, form submissions and their failure paths *)

AUTH_MISSING == "auth info not found"
BACKEND_ERROR == "backend error"

\* ---- AuthPage: the messages of handleAuth and handlePasswordReset ----

MESSAGES ==
    [unconfirmed |-> "The e-mail address has not been confirmed.",
     invalidCredentials |-> "The e-mail address or the password is wrong.",
     alreadyRegistered |-> "This e-mail address is already registered.",
     weakPassword |-> "Use a password of 8 characters or more.",
     errorPrefix |-> "An error occurred: ",
     unexpected |-> "An unexpected error occurred during authentication.",
     resetPrefix |-> "Password reset error: ",
     resetFailed |-> "An error occurred during the password reset."]

\* a caught value is kept by its message; undefined stands for a value that
\* is no object with a string message
isErrorWithMessage(err) == err # undefined

\* the catch block of handleAuth
AuthErrorMessage_credentialsFirst(err) ==
    IF ~isErrorWithMessage(err) THEN MESSAGES.unexpected
    ELSE IF includes(err, "Invalid login credentials") THEN MESSAGES.invalidCredentials
    ELSE IF includes(err, "Email not confirmed") THEN MESSAGES.unconfirmed
    ELSE IF includes(err, "Email already registered") THEN MESSAGES.alreadyRegistered
    ELSE IF includes(err, "Password should be at least") THEN MESSAGES.weakPassword
    ELSE MESSAGES.errorPrefix \o err
AuthErrorMessage(err) ==
    IF isErrorWithMessage(err)
    THEN IF includes(err, "Email not confirmed") THEN MESSAGES.unconfirmed
         ELSE IF includes(err, "Invalid login credentials") THEN MESSAGES.invalidCredentials
         ELSE IF includes(err, "Email already registered") THEN MESSAGES.alreadyRegistered
         ELSE IF includes(err, "Password should be at least") THEN MESSAGES.weakPassword
         ELSE MESSAGES.errorPrefix \o err
    ELSE MESSAGES.unexpected

\* the catch block of handlePasswordReset
ResetErrorMessage(err) ==
    IF isErrorWithMessage(err) THEN MESSAGES.resetPrefix \o err ELSE MESSAGES.resetFailed

\* ---- AuthPage: the users row read after a sign-in ----

NO_ROW == [isNull |-> TRUE]        \* data of .single() when no row came back
NULL_ARRAY == <<null>>             \* a text[] column holding NULL

ProfileRow(bio, types) == [isNull |-> FALSE, bio |-> bio, favorite_types |-> types]

\* !profile?.bio || !profile?.favorite_types || profile?.favorite_types.length === 0
isProfileIncomplete_bioOnly(p) == p = NO_ROW \/ ~Truthy(p.bio)
isProfileIncomplete(p) ==
    \/ p = NO_ROW
    \/ ~Truthy(p.bio)
    \/ p.favorite_types = NULL_ARRAY
    \/ Len(p.favorite_types) = 0

\* ---- ProfilePage: the avatars bucket ----

USER_ID == "u1"                 \* user.id of the authenticated user
AVATAR_NAME == "me.png"         \* avatar.name of the chosen file
FIRST_STAMP == 100              \* Date.now() when the stored avatar was uploaded
PUBLIC_URL == "https://project.supabase.co/storage/v1/object/public/avatars/"

\* s.split(sep).pop()
pop_split(s, sep) ==
    LET at == {i \in 1..Len(s) : CharAt(s, i) = sep}
    IN  IF at = {} THEN s
        ELSE SubSeq(s, (CHOOSE i \in at : \A j \in at : j <= i) + 1, Len(s))

\* `${userId}/${Date.now()}.${fileExt}`
filePathOf(uid, stamp, name) == uid \o "/" \o ToString(stamp) \o "." \o pop_split(name, ".")

\* storage.from('avatars').getPublicUrl(filePath).data.publicUrl
getPublicUrl(filePath) == PUBLIC_URL \o filePath

\* `${userId}/${oldAvatarPath}`, the argument of remove([...])
oldAvatarPath(uid, url) == uid \o "/" \o pop_split(url, "/")

\* the path of the upload of the running save
filePath == filePathOf(userId, clock, AVATAR_NAME)

\* the bucket and the row as they are
Stored == [bucket |-> bucket, avatar_url |-> profileRow]

\* ---- RecordPage: the evaluation sliders ----

SliderNames == {"sourness", "sweetness", "bitterness", "richness", "rating"}
SLIDER_MIN == 1                 \* min="1"
SLIDER_MAX == 5                 \* max="5"
InitialSliders == [name \in SliderNames |-> 3]     \* useState(3)

\* e.target.value of <input type="range" min max>: the element keeps its
\* value within [min, max] and reports it as a string
RangeInputValue_noMax(position) ==
    ToString(IF position < SLIDER_MIN THEN SLIDER_MIN ELSE position)
RangeInputValue(position) ==
    ToString(IF position < SLIDER_MIN THEN SLIDER_MIN
             ELSE IF position > SLIDER_MAX THEN SLIDER_MAX
             ELSE position)

\* CHECK (rating BETWEEN 1 AND 5)
RatingCheck(row) == row.rating >= 1 /\ row.rating <= 5

\* ---- the session, the components and the rows they fetch ----

Users == {USER_ID, "u2"}
\* if (!user): whether getUser() / getSession() answers with a user
signedIn == session # null

EmptyBag == [u \in Users |-> 0]
InFlight(bag) == bag[USER_ID] + bag["u2"]
Start(bag, u, n) == [bag EXCEPT ![u] = @ + n]
Finish(bag, u) == [bag EXCEPT ![u] = @ - 1]

UserProfile(id, nickname) ==
    [isNull |-> FALSE, id |-> id, nickname |-> nickname, avatar_url |-> null]
\* onAuthStateChange(...) / subscription.unsubscribe()
Subscribe(subs, c) == [subs EXCEPT ![c] = @ + 1]
Unsubscribe_kept(subs, c) == subs
Unsubscribe(subs, c) == [subs EXCEPT ![c] = 0]

\* Home is the component of the route "/"
HomeIfOpen == IF route = "/" THEN {"home"} ELSE {}

HomeInit ==
    /\ user = null
    /\ homeEntries = <<>>
    /\ fetches = EmptyBag

\* the Header of the layout, left out of a specification
HeaderIdle ==
    /\ isLoggedIn = FALSE
    /\ userProfile = NO_ROW
    /\ headerLoading = FALSE
    /\ headerPc = "unmounted"
    /\ profileFetches = EmptyBag

\* useState(false), useState(null), useState(true); checkAuth is running
HeaderInit ==
    /\ isLoggedIn = FALSE
    /\ userProfile = NO_ROW
    /\ headerLoading = TRUE
    /\ headerPc = "mounting"
    /\ profileFetches = EmptyBag

\* one subscription per mounted component
Subscribed == subscriptions = [c \in {"home", "header"} |-> IF c \in mounted THEN 1 ELSE 0]

PagesIdle ==
    /\ route = "/entries"
    /\ session = USER_ID
    /\ HomeInit /\ HeaderIdle
    /\ mounted = {} /\ Subscribed
    /\ path = "/entries"
    /\ pc = "idle"
    /\ pageLoading = FALSE
    /\ checking = FALSE
    /\ pageError = null
    /\ failed = null
    /\ requests = <<>>
    /\ hasImage = FALSE
    /\ userId = null
    /\ avatarUrl = null
    /\ bucket = {}
    /\ profileRow = null
    /\ clock = FIRST_STAMP
    /\ beforeSave = Stored
    /\ thrown = null
    /\ profile = NO_ROW
    /\ sliders = InitialSliders
    /\ stored = {}

\* a page, opened with or without an authenticated user
PageInit ==
    /\ route \in {"/auth", "/", "/record", "/entries", "/entries/:id", "/dashboard", "/profile"}
    /\ session \in {null, USER_ID}
    /\ HomeInit
    /\ path = route
    \* every page but /record starts an operation in a useEffect at mount
    /\ pc = IF route # "/record" THEN "mounting" ELSE "idle"
    \* useState(true) for loading, on the pages with the generic flags
    /\ pageLoading = (route \in {"/", "/entries/:id", "/profile"})
    /\ checking = (route = "/auth")
    /\ pageError = null
    /\ failed = null
    /\ requests = <<>>
    /\ hasImage \in BOOLEAN
    /\ userId = null
    /\ avatarUrl = null
    /\ \/ bucket = {} /\ profileRow = null
       \/ /\ route = "/profile"
          /\ bucket = {filePathOf(USER_ID, FIRST_STAMP, AVATAR_NAME)}
          /\ profileRow = getPublicUrl(filePathOf(USER_ID, FIRST_STAMP, AVATAR_NAME))
    /\ clock = FIRST_STAMP
    /\ beforeSave = Stored
    /\ thrown = null
    /\ profile = NO_ROW
    /\ sliders = InitialSliders
    /\ stored = {}

\* the page alone, without the Header
PagesInit ==
    /\ PageInit
    /\ HeaderIdle
    /\ mounted = HomeIfOpen /\ Subscribed

\* the state updates of one step of a page other than the auth page
PageStep(newPath, newPc, newLoading, newError, newFailed, newRequests) ==
    /\ path' = newPath
    /\ pc' = newPc
    /\ pageLoading' = newLoading
    /\ pageError' = newError
    /\ failed' = newFailed
    /\ requests' = newRequests
    /\ UNCHANGED <<route, session, checking, hasImage, authFormVars>>

Issue(log, kind) == Append(log, [kind |-> kind, status |-> "pending"])
Settle(log, status) == [log EXCEPT ![Len(log)].status = status]

\* if (error) throw error, after an awaited storage upload
AfterUpload_ignoreError(uploadError) == "continue"
AfterUpload(uploadError) == IF uploadError THEN "throw" ELSE "continue"

\* ---- Home ("/") ----

\* checkUser: no user, setUser(null), router.push("/auth"); finally clears
\* loading
HomeNoUser ==
    /\ route = "/" /\ pc = "mounting" /\ ~signedIn
    /\ PageStep("/auth", "idle", FALSE, pageError, failed, requests)
    /\ user' = session
    /\ UNCHANGED <<homeEntries, fetches, profileVars>>

\* checkUser: getUser() rejects; the catch only logs, the page has no error state
HomeCheckUserThrows ==
    /\ route = "/" /\ pc = "mounting"
    /\ PageStep(path, "idle", FALSE, pageError, "checkUser", requests)
    /\ UNCHANGED <<homeVars, profileVars>>

\* checkUser: a user, setUser(user); fetchEntries(user.id) sets loading and is
\* not awaited, then the finally block of checkUser clears loading
HomeUserOk ==
    /\ route = "/" /\ pc = "mounting" /\ signedIn
    /\ InFlight(fetches) < MaxInFlight
    /\ PageStep(path, "idle", FALSE, pageError, failed, requests)
    /\ user' = session
    /\ fetches' = Start(fetches, session, 1)
    /\ UNCHANGED <<homeEntries, profileVars>>

\* fetchEntries: the select of a call in flight answers; setEntries(data),
\* finally clears loading
HomeFetchOk ==
    /\ route = "/" /\ pc # "unmounted"
    /\ \E u \in Users :
         /\ fetches[u] > 0
         /\ fetches' = Finish(fetches, u)
         /\ \E data \in {<<>>, <<[id |-> "entry of " \o u, user_id |-> u]>>} :
                homeEntries' = data
    /\ PageStep(path, pc, FALSE, pageError, failed, requests)
    /\ UNCHANGED <<user, profileVars>>

\* fetchEntries: the select fails; the catch logs and empties the list
HomeFetchError ==
    /\ route = "/" /\ pc # "unmounted"
    /\ \E u \in Users :
         /\ fetches[u] > 0
         /\ fetches' = Finish(fetches, u)
    /\ homeEntries' = <<>>
    /\ PageStep(path, pc, FALSE, pageError, "fetchEntries", requests)
    /\ UNCHANGED <<user, profileVars>>

\* the callback Home passes to onAuthStateChange, run by each of its
\* subscriptions; user is session?.user of the notification
HomeOnAuthStateChange_signInOnly(event, sessionUser) ==
    IF subscriptions["home"] > 0 /\ event = "SIGNED_IN" /\ sessionUser # null
    THEN /\ user' = sessionUser
         /\ pageLoading' = TRUE
         /\ fetches' = Start(fetches, sessionUser, subscriptions["home"])
         /\ UNCHANGED <<homeEntries, path>>
    ELSE UNCHANGED <<homeVars, path, pageLoading>>
HomeOnAuthStateChange(event, sessionUser) ==
    IF subscriptions["home"] = 0
    THEN UNCHANGED <<homeVars, path, pageLoading>>
    ELSE IF event = "SIGNED_IN" /\ sessionUser # null
    THEN /\ user' = sessionUser
         /\ pageLoading' = TRUE
         /\ fetches' = Start(fetches, sessionUser, subscriptions["home"])
         /\ UNCHANGED <<homeEntries, path>>
    ELSE IF event = "SIGNED_OUT"
    THEN /\ user' = null
         /\ homeEntries' = <<>>
         /\ path' = "/auth"
         /\ UNCHANGED <<fetches, pageLoading>>
    ELSE UNCHANGED <<homeVars, path, pageLoading>>

\* the cleanup of the effect: unsubscribe; the component is gone, what its
\* pending calls would set is set on nothing
HomeUnmount ==
    /\ "home" \in mounted
    /\ mounted' = mounted \ {"home"}
    /\ subscriptions' = Unsubscribe(subscriptions, "home")
    /\ fetches' = EmptyBag
    /\ pc' = "unmounted"
    /\ UNCHANGED <<route, session, path, pageLoading, checking, pageError, failed,
                   requests, hasImage, profileVars, authFormVars, recordVars,
                   user, homeEntries, headerVars>>

\* Home is rendered again: fresh state, the effect runs
HomeMount ==
    /\ route = "/" /\ "home" \notin mounted
    /\ mounted' = mounted \cup {"home"}
    /\ subscriptions' = Subscribe(subscriptions, "home")
    /\ user' = null /\ homeEntries' = <<>> /\ fetches' = EmptyBag
    /\ path' = "/" /\ pc' = "mounting" /\ pageLoading' = TRUE /\ failed' = null
    /\ UNCHANGED <<route, session, checking, pageError, requests, hasImage,
                   profileVars, authFormVars, recordVars, headerVars>>

\* ---- Header ----

\* checkAuth: no user; setIsLoggedIn(false), setUserProfile(null)
HeaderNoUser ==
    /\ headerPc = "mounting" /\ ~signedIn
    /\ isLoggedIn' = FALSE /\ userProfile' = NO_ROW
    /\ headerLoading' = FALSE /\ headerPc' = "idle"
    /\ UNCHANGED profileFetches

\* checkAuth: a user; setIsLoggedIn(true), fetchUserProfile(user.id) is not
\* awaited
HeaderUserOk ==
    /\ headerPc = "mounting" /\ signedIn
    /\ InFlight(profileFetches) < MaxInFlight
    /\ isLoggedIn' = TRUE
    /\ profileFetches' = Start(profileFetches, session, 1)
    /\ headerLoading' = FALSE /\ headerPc' = "idle"
    /\ UNCHANGED userProfile

\* checkAuth: getUser() rejects
HeaderCheckAuthThrows ==
    /\ headerPc = "mounting"
    /\ isLoggedIn' = FALSE /\ userProfile' = NO_ROW
    /\ headerLoading' = FALSE /\ headerPc' = "idle"
    /\ UNCHANGED profileFetches

\* fetchUserProfile: the select of a call in flight answers
HeaderProfileFetched ==
    /\ headerPc # "unmounted"
    /\ \E u \in Users :
         /\ profileFetches[u] > 0
         /\ profileFetches' = Finish(profileFetches, u)
         /\ \E data \in {UserProfile(u, "nickname of " \o u),
                          UserProfile(u, "no name set")} : userProfile' = data
    /\ UNCHANGED <<isLoggedIn, headerLoading, headerPc>>

\* fetchUserProfile: the select rejects; the catch only logs
HeaderProfileFetchThrows ==
    /\ headerPc # "unmounted"
    /\ \E u \in Users :
         /\ profileFetches[u] > 0
         /\ profileFetches' = Finish(profileFetches, u)
    /\ UNCHANGED <<isLoggedIn, userProfile, headerLoading, headerPc>>

\* the callback Header passes to onAuthStateChange
HeaderOnAuthStateChange(event, sessionUser) ==
    IF subscriptions["header"] = 0
    THEN UNCHANGED headerVars
    ELSE IF event = "SIGNED_IN" /\ sessionUser # null
    THEN /\ isLoggedIn' = TRUE
         /\ profileFetches' = Start(profileFetches, sessionUser, subscriptions["header"])
         /\ UNCHANGED <<userProfile, headerLoading, headerPc>>
    ELSE IF event = "SIGNED_OUT"
    THEN /\ isLoggedIn' = FALSE
         /\ userProfile' = NO_ROW
         /\ UNCHANGED <<headerLoading, headerPc, profileFetches>>
    ELSE UNCHANGED headerVars

HeaderUnmount ==
    /\ "header" \in mounted
    /\ mounted' = mounted \ {"header"}
    /\ subscriptions' = Unsubscribe(subscriptions, "header")
    /\ profileFetches' = EmptyBag
    /\ headerPc' = "unmounted"
    /\ UNCHANGED <<isLoggedIn, userProfile, headerLoading>>

HeaderMount ==
    /\ "header" \notin mounted
    /\ mounted' = mounted \cup {"header"}
    /\ subscriptions' = Subscribe(subscriptions, "header")
    /\ isLoggedIn' = FALSE /\ userProfile' = NO_ROW /\ headerLoading' = TRUE
    /\ headerPc' = "mounting" /\ profileFetches' = EmptyBag

\* ---- the identity provider notifies the subscribers ----

\* a sign-in or a sign-out, in this tab or another: every active subscription
\* gets the event with the new session
AuthStateChange ==
    \E event \in {"SIGNED_IN", "SIGNED_OUT"}, u \in Users :
        LET sessionUser == IF event = "SIGNED_IN" THEN u ELSE null
        IN  /\ event = "SIGNED_OUT" => signedIn
            /\ InFlight(fetches) + subscriptions["home"] <= MaxInFlight
            /\ InFlight(profileFetches) + subscriptions["header"] <= MaxInFlight
            /\ session' = sessionUser
            /\ HomeOnAuthStateChange(event, sessionUser)
            /\ HeaderOnAuthStateChange(event, sessionUser)
            /\ UNCHANGED <<route, pc, checking, pageError, failed, requests,
                           hasImage, profileVars, authFormVars, recordVars,
                           lifecycleVars>>

\* ---- EntryDetailPage ("/entries/:id") ----

DetailNoUser ==
    /\ route = "/entries/:id" /\ pc = "mounting" /\ ~signedIn
    /\ PageStep("/auth", "idle", FALSE, pageError, failed, requests)
    /\ UNCHANGED profileVars

\* the select fails or returns no row
DetailFetchError ==
    /\ route = "/entries/:id" /\ pc = "mounting" /\ signedIn
    /\ PageStep(path, "idle", FALSE, BACKEND_ERROR, "fetchEntry", requests)
    /\ UNCHANGED profileVars

DetailFetchOk ==
    /\ route = "/entries/:id" /\ pc = "mounting" /\ signedIn
    /\ PageStep(path, "idle", FALSE, pageError, failed, requests)
    /\ UNCHANGED profileVars

\* ---- ProfilePage ("/profile") ----

ProfileNoUser ==
    /\ route = "/profile" /\ pc = "mounting" /\ ~signedIn
    /\ PageStep("/auth", "idle", FALSE, pageError, failed, requests)
    /\ UNCHANGED profileVars

\* getUser() rejects: the catch sets the error, userId stays null
ProfileGetUserThrows ==
    /\ route = "/profile" /\ pc = "mounting"
    /\ PageStep(path, "idle", FALSE, BACKEND_ERROR, "fetchProfile", requests)
    /\ UNCHANGED profileVars

\* the select fails with a code other than PGRST116
ProfileFetchError ==
    /\ route = "/profile" /\ pc = "mounting" /\ signedIn
    /\ PageStep(path, "idle", FALSE, BACKEND_ERROR, "fetchProfile", requests)
    /\ userId' = USER_ID
    /\ UNCHANGED <<avatarUrl, storageVars>>

\* the select answers with the profile row, or with no row (PGRST116);
\* if (data.avatar_url) setAvatarUrl(data.avatar_url)
ProfileFetchOk ==
    /\ route = "/profile" /\ pc = "mounting" /\ signedIn
    /\ PageStep(path, "idle", FALSE, pageError, failed, requests)
    /\ userId' = USER_ID
    /\ avatarUrl' = IF Truthy(profileRow) THEN profileRow ELSE avatarUrl
    /\ UNCHANGED storageVars

\* handleSave up to its first await
ProfileSaveStart ==
    /\ route = "/profile" /\ pc = "idle" /\ path = "/profile" /\ ~pageLoading
    /\ clock < FIRST_STAMP + MaxSaves
    /\ IF userId = null
       THEN PageStep(path, "idle", FALSE, AUTH_MISSING, failed, <<>>)
       ELSE IF hasImage /\ Truthy(avatarUrl) /\ Truthy(pop_split(avatarUrl, "/"))
       THEN PageStep(path, "remove", TRUE, null, null, Issue(<<>>, "remove"))
       ELSE IF hasImage
       THEN PageStep(path, "upload", TRUE, null, null, Issue(<<>>, "upload"))
       ELSE PageStep(path, "upsert", TRUE, null, null, Issue(<<>>, "upsert"))
    /\ clock' = clock + 1
    /\ beforeSave' = Stored
    /\ UNCHANGED <<userId, avatarUrl, bucket, profileRow>>

\* the removal of the old image settles (its result is not looked at)
ProfileRemoveDone ==
    /\ route = "/profile" /\ pc = "remove"
    /\ \E status \in {"ok", "failed"} :
         /\ PageStep(path, "upload", TRUE, pageError, failed,
                     Issue(Settle(requests, status), "upload"))
         /\ bucket' = IF status = "ok"
                      THEN bucket \ {oldAvatarPath(userId, avatarUrl)}
                      ELSE bucket
    /\ UNCHANGED <<userId, avatarUrl, profileRow, clock, beforeSave>>

ProfileUploadDone ==
    /\ route = "/profile" /\ pc = "upload"
    /\ \E uploadError \in BOOLEAN :
         /\ IF AfterUpload(uploadError) = "throw"
            THEN PageStep(path, "idle", FALSE, BACKEND_ERROR, "upload",
                          Settle(requests, "failed"))
            ELSE PageStep(path, "upsert", TRUE, pageError, failed,
                          Issue(Settle(requests, IF uploadError THEN "failed" ELSE "ok"),
                                "upsert"))
         /\ bucket' = IF uploadError THEN bucket ELSE bucket \cup {filePath}
    /\ UNCHANGED <<userId, avatarUrl, profileRow, clock, beforeSave>>

\* the upsert settles: on an error the catch block sets the message, else
\* setAvatarUrl(newAvatarUrl); avatar_url of the row is newAvatarUrl
ProfileUpsertDone ==
    /\ route = "/profile" /\ pc = "upsert"
    /\ LET newAvatarUrl == IF hasImage THEN getPublicUrl(filePath) ELSE avatarUrl
       IN  \/ /\ PageStep(path, "idle", FALSE, BACKEND_ERROR, "upsert",
                           Settle(requests, "failed"))
              /\ UNCHANGED <<avatarUrl, profileRow>>
           \/ /\ PageStep(path, "done", FALSE, pageError, failed,
                           Settle(requests, "ok"))
              /\ avatarUrl' = newAvatarUrl
              /\ profileRow' = newAvatarUrl
    /\ UNCHANGED <<userId, bucket, clock, beforeSave>>

\* ---- RecordPage ("/record"): no effect runs at mount ----

\* handleSubmit up to await getUser()
RecordSubmitStart ==
    /\ route = "/record" /\ pc = "idle" /\ ~pageLoading
    /\ PageStep(path, "getUser", TRUE, null, null, <<>>)
    /\ UNCHANGED <<profileVars, recordVars>>

\* if (!user) throw new Error(...)
RecordNoUser ==
    /\ route = "/record" /\ pc = "getUser" /\ ~signedIn
    /\ PageStep(path, "idle", FALSE, AUTH_MISSING, failed, requests)
    /\ UNCHANGED <<profileVars, recordVars>>

RecordUserOk ==
    /\ route = "/record" /\ pc = "getUser" /\ signedIn
    /\ IF hasImage
       THEN PageStep(path, "upload", TRUE, pageError, failed, Issue(requests, "upload"))
       ELSE PageStep(path, "insert", TRUE, pageError, failed, Issue(requests, "insert"))
    /\ UNCHANGED <<profileVars, recordVars>>

RecordUploadDone ==
    /\ route = "/record" /\ pc = "upload"
    /\ \E uploadError \in BOOLEAN :
         IF AfterUpload(uploadError) = "throw"
         THEN PageStep(path, "idle", FALSE, BACKEND_ERROR, "upload",
                       Settle(requests, "failed"))
         ELSE PageStep(path, "insert", TRUE, pageError, failed,
                       Issue(Settle(requests, IF uploadError THEN "failed" ELSE "ok"),
                             "insert"))
    /\ UNCHANGED <<profileVars, recordVars>>

\* the insert settles; the row carries the slider values of the render that
\* handleSubmit was called from, and the table rejects a rating outside 1..5
RecordInsertDone ==
    /\ route = "/record" /\ pc = "insert"
    /\ \/ /\ PageStep(path, "idle", FALSE, BACKEND_ERROR, "insert",
                       Settle(requests, "failed"))
          /\ UNCHANGED stored
       \/ /\ RatingCheck(sliders)
          /\ PageStep(path, "done", FALSE, pageError, failed, Settle(requests, "ok"))
          /\ stored' = stored \cup {sliders}
    /\ UNCHANGED <<profileVars, sliders>>

\* onChange of a RatingSlider or of the rating input: the setter receives
\* Number(e.target.value); the form is shown and no submission is running
SetSlider ==
    /\ route = "/record" /\ pc = "idle" /\ path = "/record"
    /\ \E name \in SliderNames, position \in (SLIDER_MIN - 1)..(SLIDER_MAX + 1) :
         \* Number(e.target.value)
         LET value == RangeInputValue(position)
         IN sliders' = [sliders EXCEPT
                          ![name] = IF IsIntegerKey(value) THEN KeyNumber(value) ELSE NaN]
    /\ UNCHANGED <<route, session, path, pc, pageLoading, checking, pageError,
                   failed, requests, hasImage, profileVars, authFormVars, stored>>

\* setTimeout(() => router.push('/'), 2000) after a successful save
SavedRedirect ==
    /\ route \in {"/record", "/profile"} /\ pc = "done"
    /\ PageStep("/", "left", pageLoading, pageError, failed, requests)
    /\ UNCHANGED <<profileVars, recordVars>>

\* ---- AuthPage ("/auth") ----

\* checkSession: a session, router.push('/'); checking is left set
AuthSessionFound ==
    /\ route = "/auth" /\ pc = "mounting" /\ signedIn
    /\ path' = "/" /\ pc' = "left"
    /\ UNCHANGED <<route, session, pageLoading, checking, pageError, failed,
                   requests, hasImage, profileVars, authFormVars>>

AuthNoSession ==
    /\ route = "/auth" /\ pc = "mounting" /\ ~signedIn
    /\ checking' = FALSE /\ pc' = "idle"
    /\ UNCHANGED <<route, session, path, pageLoading, pageError, failed,
                   requests, hasImage, profileVars, authFormVars>>

\* checkSession: getSession() rejects; nothing catches it
AuthCheckSessionThrows ==
    /\ route = "/auth" /\ pc = "mounting"
    /\ failed' = "checkSession" /\ pc' = "idle"
    /\ UNCHANGED <<route, session, path, pageLoading, checking, pageError,
                   requests, hasImage, profileVars, authFormVars>>

\* handleAuth / handlePasswordReset up to the awaited auth call
AuthSubmitStart ==
    /\ route = "/auth" /\ pc = "idle" /\ ~checking /\ ~pageLoading
    /\ \E op \in {"signUp", "signIn", "reset"} :
         PageStep(path, op, TRUE, null, null, requests)
    /\ UNCHANGED profileVars

\* the awaited auth call fails: if (error) throw error, the catch block sets
\* the message, the finally block clears loading
AuthSubmitFail ==
    /\ route = "/auth" /\ pc \in {"signUp", "signIn", "reset"}
    \* what signUp, signInWithPassword or resetPasswordForEmail may throw;
    \* undefined stands for a value without a message
    /\ \E err \in {"Email not confirmed", "Invalid login credentials",
                   "Email already registered", "User already registered",
                   "Password should be at least 6 characters",
                   "Invalid login credentials: Email not confirmed",
                   "Failed to fetch", undefined} :
         /\ thrown' = err
         /\ pageError' = IF pc = "reset" THEN ResetErrorMessage(err)
                         ELSE AuthErrorMessage(err)
    /\ pc' = "idle" /\ pageLoading' = FALSE /\ failed' = pc
    /\ UNCHANGED <<route, session, path, checking, requests, hasImage, userId,
                   avatarUrl, storageVars, profile>>

\* signUp / resetPasswordForEmail succeeds: a message is shown, the page stays;
\* signInWithPassword succeeds: the users row is selected next
AuthSubmitOk ==
    /\ route = "/auth" /\ pc \in {"signUp", "signIn", "reset"}
    /\ IF pc = "signIn"
       THEN pc' = "select" /\ session' = USER_ID /\ UNCHANGED pageLoading
       ELSE pc' = "idle" /\ pageLoading' = FALSE /\ UNCHANGED session
    /\ UNCHANGED <<route, path, checking, pageError, failed, requests, hasImage,
                   profileVars, authFormVars>>

\* the select settles (its error is not read: a failure leaves profile null);
\* the redirect is scheduled, the finally block clears loading
AuthProfileSelected ==
    /\ route = "/auth" /\ pc = "select"
    /\ \E row \in {NO_ROW} \cup
                   {ProfileRow(bio, types) :
                       bio \in {null, "", " ", "I like coffee"},
                       types \in {NULL_ARRAY, <<>>, <<"light">>, <<"light", "dark">>}} :
         profile' = row
    /\ pc' = "timer" /\ pageLoading' = FALSE
    /\ UNCHANGED <<route, session, path, checking, pageError, failed, requests,
                   hasImage, profileVars, thrown>>

\* the 1500 ms timer fires
AuthRedirect ==
    /\ route = "/auth" /\ pc = "timer"
    /\ path' = IF isProfileIncomplete(profile) THEN "/profile" ELSE "/"
    /\ pc' = "left"
    /\ UNCHANGED <<route, session, pageLoading, checking, pageError, failed,
                   requests, hasImage, profileVars, authFormVars>>

\* ---- EntriesPage and DashboardPage, opened as routes ----

MountDone ==
    /\ pc' = "idle"
    /\ UNCHANGED <<route, session, path, pageLoading, checking, pageError, requests,
                   hasImage, profileVars, authFormVars, recordVars, componentVars>>

EntriesOpenNoUser ==
    /\ route = "/entries" /\ pc = "mounting" /\ ~signedIn
    /\ FetchNoUser /\ MountDone
    /\ UNCHANGED <<failed, trendsVars, dashVars>>

EntriesOpenError ==
    /\ route = "/entries" /\ pc = "mounting"
    /\ FetchError /\ MountDone
    /\ failed' = "fetchEntries"
    /\ UNCHANGED <<trendsVars, dashVars>>

EntriesOpenOk ==
    /\ route = "/entries" /\ pc = "mounting" /\ signedIn
    /\ FetchOk /\ MountDone
    /\ UNCHANGED <<failed, trendsVars, dashVars>>

DashboardOpenNoUser ==
    /\ route = "/dashboard" /\ pc = "mounting" /\ ~signedIn
    /\ DashFetchNoUser /\ MountDone
    /\ UNCHANGED <<failed, entriesVars>>

DashboardOpenError ==
    /\ route = "/dashboard" /\ pc = "mounting"
    /\ DashFetchError /\ MountDone
    /\ failed' = "fetchEntries"
    /\ UNCHANGED entriesVars

DashboardOpenOk ==
    /\ route = "/dashboard" /\ pc = "mounting" /\ signedIn
    /\ DashFetchOk /\ MountDone
    /\ UNCHANGED <<failed, entriesVars>>

\* the flags and the location of whichever page is open
PathOf ==
    IF route = "/entries" THEN location
    ELSE IF route = "/dashboard" THEN dashLocation
    ELSE path

LoadingOf ==
    IF route = "/entries" THEN loading
    ELSE IF route = "/dashboard" THEN dashLoading
    ELSE pageLoading

ErrorOf ==
    IF route = "/entries" THEN error
    ELSE IF route = "/dashboard" THEN dashError
    ELSE pageError

EntriesIdle ==
    /\ db = {}
    /\ entries = <<>>
    /\ filteredEntries = <<>>
    /\ loading = TRUE
    /\ error = null
    /\ searchTerm = ""
    /\ originFilter = ""
    /\ roastFilter = ""
    /\ brewMethodFilter = ""
    /\ ratingFilter = 0
    /\ sortBy = "date"
    /\ origins = <<>>
    /\ brewMethods = <<>>
    /\ location = "/entries"

-----------------------------------------------------------------------------
(* Specifications *)

\* the entries page
Init == EntriesInit /\ TrendsIdle /\ DashIdle /\ PagesIdle

Next ==
    \/ FetchNoUser /\ UNCHANGED nonEntriesVars
    \/ FetchError /\ UNCHANGED nonEntriesVars
    \/ FetchOk /\ UNCHANGED nonEntriesVars
    \/ SetSearchTerm
    \/ SetOriginFilter
    \/ SetRoastFilter
    \/ SetBrewMethodFilter
    \/ SetRatingFilter
    \/ SetSortBy
    \/ resetFilters

Spec == Init /\ [][Next]_vars

\* the CoffeeTrends component
InitTrends == TrendsInit /\ EntriesIdle /\ DashIdle /\ PagesIdle

NextTrends ==
    \/ RenderPlaceholder /\ UNCHANGED <<entriesVars, dashVars, pagesVars>>
    \/ RenderCharts /\ UNCHANGED <<entriesVars, dashVars, pagesVars>>

SpecTrends == InitTrends /\ [][NextTrends]_vars

\* the dashboard page with the CoffeeTrends component it renders
InitDashboard == DashInit /\ EntriesIdle /\ PagesIdle

NextDashboard ==
    \/ DashFetchNoUser /\ UNCHANGED <<entriesVars, pagesVars>>
    \/ DashFetchError /\ UNCHANGED <<entriesVars, pagesVars>>
    \/ DashFetchOk /\ UNCHANGED <<entriesVars, pagesVars>>

SpecDashboard == InitDashboard /\ [][NextDashboard]_vars

\* any page, opened with or without an authenticated user
InitPages ==
    /\ PagesInit
    /\ IF route = "/entries"
       THEN EntriesInit /\ location = "/entries"
       ELSE EntriesIdle
    /\ IF route = "/dashboard" THEN DashInit ELSE DashIdle /\ TrendsIdle

OtherPagesUnchanged == UNCHANGED <<entriesVars, trendsVars, dashVars>>

NextPages ==
    \/ HomeNoUser /\ OtherPagesUnchanged /\ UNCHANGED <<recordVars, headerVars, lifecycleVars>>
    \/ HomeCheckUserThrows /\ OtherPagesUnchanged /\ UNCHANGED <<recordVars, headerVars, lifecycleVars>>
    \/ HomeUserOk /\ OtherPagesUnchanged /\ UNCHANGED <<recordVars, headerVars, lifecycleVars>>
    \/ HomeFetchOk /\ OtherPagesUnchanged /\ UNCHANGED <<recordVars, headerVars, lifecycleVars>>
    \/ HomeFetchError /\ OtherPagesUnchanged /\ UNCHANGED <<recordVars, headerVars, lifecycleVars>>
    \/ DetailNoUser /\ OtherPagesUnchanged /\ UNCHANGED <<recordVars, componentVars>>
    \/ DetailFetchError /\ OtherPagesUnchanged /\ UNCHANGED <<recordVars, componentVars>>
    \/ DetailFetchOk /\ OtherPagesUnchanged /\ UNCHANGED <<recordVars, componentVars>>
    \/ ProfileNoUser /\ OtherPagesUnchanged /\ UNCHANGED <<recordVars, componentVars>>
    \/ ProfileGetUserThrows /\ OtherPagesUnchanged /\ UNCHANGED <<recordVars, componentVars>>
    \/ ProfileFetchError /\ OtherPagesUnchanged /\ UNCHANGED <<recordVars, componentVars>>
    \/ ProfileFetchOk /\ OtherPagesUnchanged /\ UNCHANGED <<recordVars, componentVars>>
    \/ ProfileSaveStart /\ OtherPagesUnchanged /\ UNCHANGED <<recordVars, componentVars>>
    \/ ProfileRemoveDone /\ OtherPagesUnchanged /\ UNCHANGED <<recordVars, componentVars>>
    \/ ProfileUploadDone /\ OtherPagesUnchanged /\ UNCHANGED <<recordVars, componentVars>>
    \/ ProfileUpsertDone /\ OtherPagesUnchanged /\ UNCHANGED <<recordVars, componentVars>>
    \/ RecordSubmitStart /\ OtherPagesUnchanged /\ UNCHANGED componentVars
    \/ RecordNoUser /\ OtherPagesUnchanged /\ UNCHANGED componentVars
    \/ RecordUserOk /\ OtherPagesUnchanged /\ UNCHANGED componentVars
    \/ RecordUploadDone /\ OtherPagesUnchanged /\ UNCHANGED componentVars
    \/ RecordInsertDone /\ OtherPagesUnchanged /\ UNCHANGED componentVars
    \/ SavedRedirect /\ OtherPagesUnchanged /\ UNCHANGED componentVars
    \/ AuthSessionFound /\ OtherPagesUnchanged /\ UNCHANGED <<recordVars, componentVars>>
    \/ AuthNoSession /\ OtherPagesUnchanged /\ UNCHANGED <<recordVars, componentVars>>
    \/ AuthCheckSessionThrows /\ OtherPagesUnchanged /\ UNCHANGED <<recordVars, componentVars>>
    \/ AuthSubmitStart /\ OtherPagesUnchanged /\ UNCHANGED <<recordVars, componentVars>>
    \/ AuthSubmitFail /\ OtherPagesUnchanged /\ UNCHANGED <<recordVars, componentVars>>
    \/ AuthSubmitOk /\ OtherPagesUnchanged /\ UNCHANGED <<recordVars, componentVars>>
    \/ AuthProfileSelected /\ OtherPagesUnchanged /\ UNCHANGED <<recordVars, componentVars>>
    \/ AuthRedirect /\ OtherPagesUnchanged /\ UNCHANGED <<recordVars, componentVars>>
    \/ EntriesOpenNoUser
    \/ EntriesOpenError
    \/ EntriesOpenOk
    \/ DashboardOpenNoUser
    \/ DashboardOpenError
    \/ DashboardOpenOk

\* the record page with its sliders
InitRecord == InitPages /\ route = "/record"

NextRecord ==
    \/ SetSlider /\ OtherPagesUnchanged /\ UNCHANGED componentVars
    \/ RecordSubmitStart /\ OtherPagesUnchanged /\ UNCHANGED componentVars
    \/ RecordNoUser /\ OtherPagesUnchanged /\ UNCHANGED componentVars
    \/ RecordUserOk /\ OtherPagesUnchanged /\ UNCHANGED componentVars
    \/ RecordUploadDone /\ OtherPagesUnchanged /\ UNCHANGED componentVars
    \/ RecordInsertDone /\ OtherPagesUnchanged /\ UNCHANGED componentVars
    \/ SavedRedirect /\ OtherPagesUnchanged /\ UNCHANGED componentVars

SpecRecord == InitRecord /\ [][NextRecord]_vars

\* Home or the auth page under the Header of the layout, with the sign-ins
\* and sign-outs the identity provider notifies
InitSession ==
    /\ PageInit /\ route \in {"/", "/auth"}
    /\ hasImage = FALSE /\ bucket = {}
    /\ HeaderInit
    /\ mounted = HomeIfOpen \cup {"header"} /\ Subscribed
    /\ EntriesIdle /\ DashIdle /\ TrendsIdle

PageUnchanged ==
    UNCHANGED <<route, session, path, pc, pageLoading, checking, pageError, failed,
                requests, hasImage, profileVars, authFormVars, recordVars, homeVars>>

NextSession ==
    \/ HomeNoUser /\ OtherPagesUnchanged /\ UNCHANGED <<recordVars, headerVars, lifecycleVars>>
    \/ HomeCheckUserThrows /\ OtherPagesUnchanged /\ UNCHANGED <<recordVars, headerVars, lifecycleVars>>
    \/ HomeUserOk /\ OtherPagesUnchanged /\ UNCHANGED <<recordVars, headerVars, lifecycleVars>>
    \/ HomeFetchOk /\ OtherPagesUnchanged /\ UNCHANGED <<recordVars, headerVars, lifecycleVars>>
    \/ HomeFetchError /\ OtherPagesUnchanged /\ UNCHANGED <<recordVars, headerVars, lifecycleVars>>
    \/ HomeUnmount /\ OtherPagesUnchanged
    \/ HomeMount /\ OtherPagesUnchanged
    \/ AuthSessionFound /\ OtherPagesUnchanged /\ UNCHANGED <<recordVars, componentVars>>
    \/ AuthNoSession /\ OtherPagesUnchanged /\ UNCHANGED <<recordVars, componentVars>>
    \/ AuthCheckSessionThrows /\ OtherPagesUnchanged /\ UNCHANGED <<recordVars, componentVars>>
    \/ HeaderNoUser /\ OtherPagesUnchanged /\ PageUnchanged /\ UNCHANGED lifecycleVars
    \/ HeaderUserOk /\ OtherPagesUnchanged /\ PageUnchanged /\ UNCHANGED lifecycleVars
    \/ HeaderCheckAuthThrows /\ OtherPagesUnchanged /\ PageUnchanged /\ UNCHANGED lifecycleVars
    \/ HeaderProfileFetched /\ OtherPagesUnchanged /\ PageUnchanged /\ UNCHANGED lifecycleVars
    \/ HeaderProfileFetchThrows /\ OtherPagesUnchanged /\ PageUnchanged /\ UNCHANGED lifecycleVars
    \/ HeaderUnmount /\ OtherPagesUnchanged /\ PageUnchanged
    \/ HeaderMount /\ OtherPagesUnchanged /\ PageUnchanged
    \/ AuthStateChange /\ OtherPagesUnchanged

SpecSession == InitSession /\ [][NextSession]_vars

SpecPages == InitPages /\ [][NextPages]_vars

-----------------------------------------------------------------------------
(* Properties of the entries page *)

\* position of an entry in a list without repetitions
IndexOf(list, x) == CHOOSE i \in 1..Len(list) : list[i] = x

NoRepetition(list) == \A i, j \in 1..Len(list) : i # j => list[i] # list[j]

\* list holds its elements in the order they have in base
KeepsOrderOf(list, base) ==
    \A i, j \in 1..Len(list) : i < j => IndexOf(base, list[i]) < IndexOf(base, list[j])

AllFiltersRemoved ==
    /\ searchTerm = ""
    /\ originFilter = ""
    /\ roastFilter = ""
    /\ brewMethodFilter = ""
    /\ ratingFilter = 0
    /\ sortBy = "date"

\* C1: the filtered list only holds entries of the base list, each at most
\* once; with all filters removed (the state resetFilters produces) it is the
\* base list itself, in the base (creation-time descending) order.
C1_SubsetAndReset ==
    /\ Range(filteredEntries) \subseteq Range(entries)
    /\ NoRepetition(filteredEntries)
    /\ AllFiltersRemoved => filteredEntries = entries

C1_Witness ==
    /\ AllFiltersRemoved
    /\ Len(entries) >= 2
    /\ filteredEntries = entries
    /\ \E i \in 1..(Len(entries) - 1) : getTime(entries[i]) > getTime(entries[i + 1])

\* C2: with sort mode "rating" the filtered list is in non-increasing rating
\* order, and two entries of equal rating keep the relative order they have
\* in the base list.
C2_RatingSortStable ==
    sortBy = "rating" =>
        \A i, j \in 1..Len(filteredEntries) : i < j =>
            /\ filteredEntries[i].rating >= filteredEntries[j].rating
            /\ filteredEntries[i].rating = filteredEntries[j].rating
                 => IndexOf(entries, filteredEntries[i]) < IndexOf(entries, filteredEntries[j])

\* a tie kept in base order next to a pair the sort had to swap
C2_Witness ==
    /\ sortBy = "rating"
    /\ \E i, j \in 1..Len(filteredEntries) :
        /\ i < j
        /\ filteredEntries[i].rating = filteredEntries[j].rating
    /\ \E i, j \in 1..Len(filteredEntries) :
        /\ i < j
        /\ IndexOf(entries, filteredEntries[i]) > IndexOf(entries, filteredEntries[j])

\* C3: in every state the filtered list is the filter pipeline applied to the
\* whole base list with the current parameter values, whatever the earlier
\* parameter values and the earlier filtered list were.
C3_RecomputedFromBase ==
    filteredEntries = FilterSortEffect(entries, searchTerm, originFilter, roastFilter,
                                       brewMethodFilter, ratingFilter, sortBy)

\* a filter widened again: the current parameters hide nothing although the
\* base list has several entries
C3_Witness ==
    /\ Len(entries) >= 2
    /\ ratingFilter = 1
    /\ searchTerm = " "
    /\ filteredEntries = SortStep(entries, sortBy)
    /\ sortBy = "rating"

\* the five filter steps, by number
ApplyStep(k, result) ==
    CASE k = 1 -> KeywordStep(result, searchTerm)
      [] k = 2 -> OriginStep(result, originFilter)
      [] k = 3 -> RoastStep(result, roastFilter)
      [] k = 4 -> BrewStep(result, brewMethodFilter)
      [] k = 5 -> RatingStep(result, ratingFilter)

ApplyInOrder(p) ==
    ApplyStep(p[5], ApplyStep(p[4], ApplyStep(p[3], ApplyStep(p[2], ApplyStep(p[1], entries)))))

StepOrders == Permutations(1..5)

KeywordPred(e) ==
    trim(searchTerm) # "" => KeywordMatch(e, toLowerCase(searchTerm))
OriginPred(e) == Truthy(originFilter) => e.bean_origin = originFilter
RoastPred(e) == Truthy(roastFilter) => e.roast_level = roastFilter
BrewPred(e) == Truthy(brewMethodFilter) => e.brew_method = brewMethodFilter
RatingPred(e) == ratingFilter > 0 => e.rating >= ratingFilter

\* C4: the filtered list holds exactly the base entries that satisfy all five
\* predicates, and the five steps taken in any order give the same list.
C4_Conjunctive ==
    /\ Range(filteredEntries) =
         {e \in Range(entries) :
            KeywordPred(e) /\ OriginPred(e) /\ RoastPred(e) /\ BrewPred(e) /\ RatingPred(e)}
    /\ \A p \in StepOrders : SortStep(ApplyInOrder(p), sortBy) = filteredEntries

\* two filters active at once, each of which alone would keep more
C4_Witness ==
    /\ Truthy(brewMethodFilter)
    /\ Truthy(roastFilter)
    /\ Len(filteredEntries) = 1
    /\ Len(BrewStep(entries, brewMethodFilter)) = 2
    /\ Len(RoastStep(entries, roastFilter)) = 2

\* ---- independent readings of "case-insensitive substring" and "blank" ----

SameLetter(c, d) ==
    \/ c = d
    \/ \E n \in 1..Len(UpperCaseLetters) :
         {c, d} = {CharAt(UpperCaseLetters, n), CharAt("abcdefghijklmnopqrstuvwxyz", n)}

ContainsIgnoringCase(field, t) ==
    /\ field # null
    /\ \E i \in 1..(Len(field) - Len(t) + 1) :
         \A k \in 1..Len(t) : SameLetter(CharAt(field, i + k - 1), CharAt(t, k))

IsBlank(t) == \A i \in 1..Len(t) : CharAt(t, i) \in {" ", "\t"}

OnlyKeywordActive ==
    originFilter = "" /\ roastFilter = "" /\ brewMethodFilter = "" /\ ratingFilter = 0

\* C5 as stated: the keyword filter keeps exactly the entries whose bean name
\* or origin contains the term as a case-insensitive substring, and every
\* entry when the term is empty.
C5_KeywordAsStated ==
    OnlyKeywordActive =>
        Range(filteredEntries) =
            {e \in Range(entries) :
                \/ searchTerm = ""
                \/ ContainsIgnoringCase(e.bean_name, searchTerm)
                \/ ContainsIgnoringCase(e.bean_origin, searchTerm)}

\* C5 (amended): a term that is empty or consists of white space only keeps
\* every entry; any other term, taken as typed (not trimmed), keeps exactly
\* the entries whose bean name or origin contains it as a case-insensitive
\* substring.
C5_KeywordFilter ==
    /\ OnlyKeywordActive =>
        Range(filteredEntries) =
            {e \in Range(entries) :
                \/ IsBlank(searchTerm)
                \/ ContainsIgnoringCase(e.bean_name, searchTerm)
                \/ ContainsIgnoringCase(e.bean_origin, searchTerm)}
    /\ ~IsBlank(searchTerm) =>
        \A e \in Range(filteredEntries) :
            \/ ContainsIgnoringCase(e.bean_name, searchTerm)
            \/ ContainsIgnoringCase(e.bean_origin, searchTerm)

\* an entry kept through its origin alone, in another case than typed, next to
\* an entry that is dropped
C5_Witness ==
    /\ OnlyKeywordActive
    /\ searchTerm = "ET"
    /\ Len(filteredEntries) < Len(entries)
    /\ \E e \in Range(filteredEntries) :
        /\ ~ContainsIgnoringCase(e.bean_name, searchTerm)
        /\ e.bean_origin # null
        /\ e.bean_origin # searchTerm

OnlyEqualityActive == searchTerm = "" /\ ratingFilter = 0

\* C6: an equality filter set to a non-empty value keeps only the entries
\* whose field equals the value exactly, in the order of the base list; set
\* to the empty value it keeps every entry, also those whose field is empty
\* or absent.  (The order of the displayed list is the base order under sort
\* mode "date"; under "rating" the sort step reorders it.)
C6_EqualityFilters ==
    /\ Truthy(originFilter) =>
         \A e \in Range(filteredEntries) : e.bean_origin = originFilter
    /\ Truthy(roastFilter) =>
         \A e \in Range(filteredEntries) : e.roast_level = roastFilter
    /\ Truthy(brewMethodFilter) =>
         \A e \in Range(filteredEntries) : e.brew_method = brewMethodFilter
    /\ OnlyEqualityActive =>
         Range(filteredEntries) =
            {e \in Range(entries) :
                /\ originFilter = "" \/ e.bean_origin = originFilter
                /\ roastFilter = "" \/ e.roast_level = roastFilter
                /\ brewMethodFilter = "" \/ e.brew_method = brewMethodFilter}
    /\ KeepsOrderOf(OriginStep(entries, originFilter), entries)
    /\ KeepsOrderOf(RoastStep(entries, roastFilter), entries)
    /\ KeepsOrderOf(BrewStep(entries, brewMethodFilter), entries)
    /\ sortBy = "date" => KeepsOrderOf(filteredEntries, entries)

\* two exact matches kept in base order around an entry that is dropped, while
\* the base list also holds the value in another case
C6_Witness ==
    /\ OnlyEqualityActive
    /\ sortBy = "date"
    /\ Truthy(brewMethodFilter)
    /\ roastFilter = ""
    /\ Len(filteredEntries) = 2
    /\ Len(entries) = 3
    /\ IndexOf(entries, filteredEntries[2]) = 3
    /\ IndexOf(entries, filteredEntries[1]) = 1

OnlyRatingActive ==
    searchTerm = "" /\ originFilter = "" /\ roastFilter = "" /\ brewMethodFilter = ""

\* C7: with threshold t > 0 the rating filter keeps exactly the entries with
\* rating >= t; with threshold 0 it keeps every entry.
C7_RatingFilter ==
    /\ ratingFilter > 0 =>
         \A e \in Range(filteredEntries) : e.rating >= ratingFilter
    /\ OnlyRatingActive =>
         Range(filteredEntries) =
            {e \in Range(entries) : ratingFilter = 0 \/ e.rating >= ratingFilter}

\* an entry exactly at the threshold is kept, one below it is dropped
C7_Witness ==
    /\ OnlyRatingActive
    /\ ratingFilter > 0
    /\ \E e \in Range(filteredEntries) : e.rating = ratingFilter
    /\ \E e \in Range(entries) : e.rating < ratingFilter

ValuesOf(field(_)) == {field(entries[i]) : i \in 1..Len(entries)}
OriginOf(e) == e.bean_origin
BrewMethodOf(e) == e.brew_method

\* C8 as stated: the option lists hold every non-empty origin (brew method) of
\* the base list exactly once and nothing else.
C8_OptionsAsStated ==
    /\ Range(origins) = ValuesOf(OriginOf) \ {null, ""}
    /\ NoRepetition(origins)
    /\ Range(brewMethods) = ValuesOf(BrewMethodOf) \ {null, ""}
    /\ NoRepetition(brewMethods)

\* C8 (amended): in every state the option lists hold every origin (brew
\* method) of the current base list that is not blank (neither absent, empty
\* nor white space only) exactly once and nothing else.
C8_OptionLists ==
    /\ Range(origins) = {v \in ValuesOf(OriginOf) \ {null} : ~IsBlank(v)}
    /\ NoRepetition(origins)
    /\ Range(brewMethods) = {v \in ValuesOf(BrewMethodOf) \ {null} : ~IsBlank(v)}
    /\ NoRepetition(brewMethods)

\* a value present twice is offered once, a blank value not at all
C8_Witness ==
    /\ Len(brewMethods) = 1
    /\ \E i, j \in 1..Len(entries) :
         i # j /\ entries[i].brew_method = brewMethods[1]
               /\ entries[j].brew_method = brewMethods[1]
    /\ \E i \in 1..Len(entries) :
         entries[i].brew_method # null /\ entries[i].brew_method # ""
            /\ IsBlank(entries[i].brew_method)

-----------------------------------------------------------------------------
(* Properties of the CoffeeTrends charts *)

RECURSIVE JsSum(_)
JsSum(list) == IF Len(list) = 0 THEN 0 ELSE JsAdd(Head(list), JsSum(Tail(list)))

CountWhere(list, P(_)) == Cardinality({i \in 1..Len(list) : P(list[i])})

\* the bucket an entry belongs to: its roast level when that is one of the five
\* known levels, the other/unknown bucket otherwise
BucketOf(entry) ==
    IF entry.roast_level \in Range(ROAST_LEVELS) THEN entry.roast_level ELSE OTHER_LEVEL

\* C9: the roast-level histogram has exactly the six fixed buckets, every
\* entry is counted in exactly the bucket it belongs to, and the six counts
\* add up to the number of entries, whatever the roast_level strings are.
C9_RoastHistogram ==
    rendered = "charts" =>
        /\ ObjectKeys(roastLevels) = Append(ROAST_LEVELS, OTHER_LEVEL)
        /\ \A i \in 1..Len(roastLevels) :
             LET InBucket(entry) == BucketOf(entry) = roastLevels[i].key
             IN roastLevels[i].value = CountWhere(trendEntries, InBucket)
        /\ JsSum(ObjectValues(roastLevels)) = Len(trendEntries)

\* the six calendar months ending at the current month
InWindow(d, today) ==
    LET n == d.year * 12 + d.month
        t == today.year * 12 + today.month
    IN t - 5 <= n /\ n <= t

\* C10: an entry created outside the last six calendar months is counted in
\* no bucket of the monthly histogram; an entry inside the window is counted
\* in exactly the bucket of its creation month.
C10_MonthlyWindow ==
    rendered = "charts" =>
        \A i \in 1..Len(months) :
            LET Counted(entry) == /\ InWindow(entry.created_at, now)
                                  /\ monthName(entry.created_at) = months[i].key
            IN months[i].value = CountWhere(trendEntries, Counted)

\* C11: the monthly histogram has exactly six labelled buckets, one for each
\* of the six calendar months ending at the current month (also when the six
\* months span a year boundary), and all six counts are 0 when no entry was
\* created inside those six months.
C11_SixMonthBuckets ==
    rendered = "charts" =>
        /\ Len(months) = 6
        /\ \A i \in 1..Len(months) :
             months[i].key = monthName(NewDate(now.year, now.month - (6 - i)))
        /\ (\A j \in 1..Len(trendEntries) : ~InWindow(trendEntries[j].created_at, now))
              => \A i \in 1..Len(months) : months[i].value = 0

-----------------------------------------------------------------------------
(* Properties of the dashboard statistics *)

TasteAttributes == {"sourness", "sweetness", "bitterness", "richness"}

\* getStats was called by the last render
StatsShown == ~dashLoading /\ dashError = null

\* C12: the average rating and the four taste-attribute averages are 0 (never
\* NaN, never an error) for an empty entry list, and the attribute's sum
\* divided by the number of entries otherwise.
C12_Averages ==
    LET n == Len(dashEntries)
        SumOf(a) == JsSum([i \in 1..n |-> dashEntries[i][a]])
        IsAverage(q, sum) ==
            /\ q.den # 0
            /\ IF n = 0 THEN q.num = 0 ELSE q.num * n = sum * q.den
        taste == tasteProfileData(dashEntries)
    IN /\ \A a \in TasteAttributes : IsAverage(taste[a], SumOf(a))
       /\ rendered = "charts" => tasteProfile = taste
       /\ StatsShown =>
            stats.avgRating = IF n = 0 THEN "0.0"
                              ELSE toFixed1([num |-> SumOf("rating"), den |-> n])

C12_Witness ==
    /\ StatsShown
    /\ Len(dashEntries) = 0
    /\ stats.avgRating = "0.0"

\* C13 as stated: with 0 entries the dashboard page displays the average
\* rating as "0.0" and not an error.
C13_AverageAsStated ==
    (StatsShown /\ Len(dashEntries) = 0) => DisplayedAverage = "0.0"

\* C13: with 0 entries getStats computes the average rating as "0.0" and no
\* error is shown, but the page returns the "no records yet" notice in place
\* of the summary, so no average is displayed.
C13_EmptyDashboard ==
    (StatsShown /\ Len(dashEntries) = 0) =>
        /\ stats.avgRating = "0.0"
        /\ DashView = "empty"
        /\ DisplayedAverage = null

C13_Witness ==
    /\ StatsShown
    /\ Len(dashEntries) = 0
    /\ dashLocation = "/dashboard"
    /\ DashView = "empty"

\* the top value of a field as it should be reported: a non-empty value with
\* the largest number of occurrences, the one met first in the entry list
\* among equals, and the marker when the field is empty in every entry
IsTopOf(top, list, field) ==
    LET Occurrences(v) == Cardinality({i \in 1..Len(list) : list[i][field] = v})
        First(v) == CHOOSE i \in 1..Len(list) :
                        list[i][field] = v /\ \A j \in 1..(i - 1) : list[j][field] # v
        Values == {list[i][field] : i \in {j \in 1..Len(list) : Truthy(list[j][field])}}
    IN IF Values = {} THEN top = NONE_LABEL
       ELSE /\ top \in Values
            /\ \A v \in Values :
                 \/ Occurrences(v) < Occurrences(top)
                 \/ Occurrences(v) = Occurrences(top) /\ First(top) <= First(v)

\* C14: the reported most-frequent brew method (and origin) is a non-empty
\* value whose occurrence count is maximal; among equally frequent values it
\* is the one met first in the entry list; it is the 'none' marker when no
\* entry has a non-empty value.
C14_TopMethodAndOrigin ==
    StatsShown =>
        /\ IsTopOf(stats.topMethod, dashEntries, "brew_method")
        /\ IsTopOf(stats.topOrigin, dashEntries, "bean_origin")

-----------------------------------------------------------------------------
(* Properties of the CoffeeTrends charts, continued *)

\* C15: the brew-method histogram has at most five groups, in non-increasing
\* order of count; each count is the number of entries with exactly that
\* brew-method value; no omitted non-empty brew method has a strictly larger
\* count than a listed one.
C15_TopBrewMethods ==
    rendered = "charts" =>
        LET Occurrences(v) ==
                Cardinality({i \in 1..Len(trendEntries) : trendEntries[i].brew_method = v})
            Values == {trendEntries[i].brew_method :
                          i \in {j \in 1..Len(trendEntries) :
                                    Truthy(trendEntries[j].brew_method)}}
            Listed == {sortedMethods[i].key : i \in 1..Len(sortedMethods)}
        IN /\ Len(sortedMethods) <= 5
           /\ \A i \in 1..(Len(sortedMethods) - 1) :
                sortedMethods[i].value >= sortedMethods[i + 1].value
           /\ \A i \in 1..Len(sortedMethods) :
                sortedMethods[i].value = Occurrences(sortedMethods[i].key)
           /\ \A v \in Values \ Listed : \A i \in 1..Len(sortedMethods) :
                Occurrences(v) <= sortedMethods[i].value

\* C16: the rating histogram has exactly the five buckets 1..5; bucket r
\* counts exactly the entries rated r; an entry rated outside 1..5 changes no
\* bucket and raises no error.
C16_RatingHistogram ==
    rendered = "charts" =>
        /\ Len(ratings) = 5
        /\ \A r \in 1..5 :
             ratings[r] = Cardinality({i \in 1..Len(trendEntries) :
                                          trendEntries[i].rating = r})
        /\ JsSum(ratings) = Cardinality({i \in 1..Len(trendEntries) :
                                            trendEntries[i].rating \in 1..5})

C16_Witness ==
    /\ rendered = "charts"
    /\ \E i, j, k \in 1..Len(trendEntries) :
         /\ trendEntries[i].rating = 0
         /\ trendEntries[j].rating = 6
         /\ trendEntries[k].rating = 5
         /\ ratings = <<0, 0, 0, 0, 1>>

\* C17: with fewer than 3 entries the component returns the placeholder and
\* calls none of the histogram and average computations; with 3 or more
\* entries it returns the charts.
C17_ChartThreshold ==
    /\ (rendered # "none" /\ Len(trendEntries) < 3) =>
            /\ rendered = "placeholder"
            /\ invoked = {}
            /\ ratings = <<>> /\ roastLevels = <<>> /\ months = <<>>
            /\ sortedMethods = <<>> /\ tasteProfile = NoTasteProfile
    /\ (rendered # "none" /\ Len(trendEntries) >= 3) =>
            /\ rendered = "charts"
            /\ invoked = ChartFunctions
            /\ Len(ratings) = 5 /\ Len(roastLevels) >= 6 /\ Len(months) = 6

C17_Witness ==
    /\ rendered = "placeholder"
    /\ Len(trendEntries) = 2
    /\ invoked = {}

-----------------------------------------------------------------------------
(* Properties of the pages *)

\* C18: on every route other than /auth, opening the page with no
\* authenticated user ends in a redirect to /auth.
C18_RedirectToAuth ==
    (route # "/auth" /\ ~signedIn /\ failed = null /\ pc # "mounting")
        => PathOf = "/auth"

\* C19: whenever the backend call of an asynchronous operation fails, the
\* operation ends with the page's error string set and its loading flag
\* cleared; the page is neither stuck loading or checking nor left without an
\* error message.
C19_FailureSurfaced ==
    (failed # null /\ pc = "idle") =>
        /\ ErrorOf # null
        /\ ~LoadingOf
        /\ ~checking

SaveRequests == {"insert", "upsert"}

\* C20: in a submission that includes an image, the insert / upsert is issued
\* only after the upload has succeeded; no two requests of the submission are
\* in flight together; after a failed upload no insert / upsert is issued.
C20_UploadBeforeSave ==
    /\ Cardinality({i \in 1..Len(requests) : requests[i].status = "pending"}) <= 1
    /\ \A i \in 1..Len(requests) :
         (requests[i].kind \in SaveRequests /\ hasImage) =>
             \E j \in 1..(i - 1) :
                 requests[j].kind = "upload" /\ requests[j].status = "ok"
    /\ \A j \in 1..Len(requests) :
         (requests[j].kind = "upload" /\ requests[j].status = "failed") =>
             \A i \in 1..Len(requests) : requests[i].kind \notin SaveRequests

C20_Witness ==
    /\ route = "/profile"
    /\ hasImage
    /\ requests = <<[kind |-> "remove", status |-> "failed"],
                    [kind |-> "upload", status |-> "ok"],
                    [kind |-> "upsert", status |-> "pending"]>>

-----------------------------------------------------------------------------
(* Properties of the login form *)

BioMissingOrEmpty(p) == p = NO_ROW \/ p.bio \in {null, ""}
TypesMissingOrEmpty(p) == p = NO_ROW \/ p.favorite_types \in {NULL_ARRAY, <<>>}

\* C21: after a successful sign-in through the login form, the redirect goes
\* to /profile exactly when the profile selected right after the sign-in has
\* a missing or empty bio or missing or empty favorite types, and to /
\* otherwise.
C21_LoginRedirect ==
    [][(route = "/auth" /\ pc = "timer" /\ pc' = "left") =>
          /\ path' = IF BioMissingOrEmpty(profile) \/ TypesMissingOrEmpty(profile)
                     THEN "/profile" ELSE "/"
          /\ profile' = profile]_vars

C21_Witness ==
    /\ route = "/auth" /\ pc = "left" /\ path = "/profile"
    /\ profile = ProfileRow("I like coffee", <<>>)

C21_WitnessHome ==
    /\ route = "/auth" /\ pc = "left" /\ path = "/"
    /\ profile = ProfileRow(" ", <<"light">>)

\* the substrings looked for in the provider's error text, in order, with the
\* message of each
AuthMessages ==
    << <<"Email not confirmed", MESSAGES.unconfirmed>>,
       <<"Invalid login credentials", MESSAGES.invalidCredentials>>,
       <<"Email already registered", MESSAGES.alreadyRegistered>>,
       <<"Password should be at least", MESSAGES.weakPassword>> >>

MatchesOf(text) ==
    IF text = undefined THEN {}
    ELSE {i \in 1..Len(AuthMessages) : includes(text, AuthMessages[i][1])}

FirstOf(S) == CHOOSE i \in S : \A j \in S : i <= j

\* C22: an error of the sign-up / sign-in handler is mapped to exactly one
\* message: that of the first substring, in the order unconfirmed e-mail,
\* invalid credentials, duplicate registration, weak password, that the
\* provider's text contains, and the fallback message otherwise; the error
\* string is set and the loading flag is cleared.
C22_ErrorMapping ==
    (route = "/auth" /\ pc = "idle" /\ failed \in {"signUp", "signIn"}) =>
        /\ ~pageLoading
        /\ pageError # null
        /\ pageError =
             IF MatchesOf(thrown) # {} THEN AuthMessages[FirstOf(MatchesOf(thrown))][2]
             ELSE IF thrown = undefined THEN MESSAGES.unexpected
             ELSE MESSAGES.errorPrefix \o thrown

C22_Witness ==
    /\ route = "/auth" /\ pc = "idle" /\ failed = "signIn"
    /\ thrown = "Invalid login credentials: Email not confirmed"
    /\ pageError = MESSAGES.unconfirmed

C22_WitnessFallback ==
    /\ route = "/auth" /\ pc = "idle" /\ failed = "signUp"
    /\ thrown = "User already registered"
    /\ pageError = MESSAGES.errorPrefix \o "User already registered"

-----------------------------------------------------------------------------
(* Properties of the profile save *)

\* the object a public URL of the avatars bucket refers to
ObjectOf(url) == SubSeq(url, Len(PUBLIC_URL) + 1, Len(url))

\* C24: when a successful profile save replaces an existing avatar with a
\* newly chosen image, a delete of the previous object was issued, the
\* previous object is no longer in the avatars bucket, and the profile
\* references the new object only.
C24_PreviousAvatarDeleted ==
    [][(route = "/profile" /\ pc = "upsert" /\ pc' = "done"
           /\ hasImage /\ Truthy(avatarUrl)) =>
          /\ \E i \in 1..Len(requests) : requests[i].kind = "remove"
          /\ ObjectOf(avatarUrl) \notin bucket'
          /\ profileRow' # avatarUrl
          /\ ObjectOf(profileRow') \in bucket']_vars

ReferenceHolds(url) == Truthy(url) => ObjectOf(url) \in bucket

SaveEnded == route = "/profile" /\ clock > FIRST_STAMP /\ pc \in {"idle", "done"}

\* C30: after any profile save, successful or failed, the avatar reference
\* of the profile record and the one held by the page are absent or refer to
\* an object that is in the avatars bucket; a failed save leaves the profile
\* record and the bucket as they were before the save.
C30_AvatarReference ==
    SaveEnded =>
        /\ ReferenceHolds(profileRow)
        /\ ReferenceHolds(avatarUrl)
        /\ (pc = "idle" => Stored = beforeSave)

-----------------------------------------------------------------------------
(* Properties of the record form *)

WithinOneToFive(row) == \A name \in SliderNames : row[name] \in 1..5

\* C25: the rating and the four taste attributes held by the record form are
\* integers within [1, 5] after any sequence of slider changes, and so are
\* those of every row stored through the form.
C25_RatingsInRange ==
    /\ WithinOneToFive(sliders)
    /\ \A row \in stored : WithinOneToFive(row)

C25_Witness ==
    /\ route = "/record" /\ pc = "done"
    /\ \E row \in stored : row.rating = 5 /\ row.sourness = 1 /\ row.richness = 5

-----------------------------------------------------------------------------
(* Properties of the session: the auth page, Home and the Header *)

\* the authentication view-state of each component
AuthView ==
    IF path # "/auth" THEN "authenticated"
    ELSE IF checking THEN "checking" ELSE "unauthenticated"

HomeView ==
    IF user # null THEN "authenticated"
    ELSE IF pc = "mounting" /\ pageLoading THEN "checking" ELSE "unauthenticated"

HeaderView ==
    IF isLoggedIn THEN "authenticated"
    ELSE IF headerLoading THEN "checking" ELSE "unauthenticated"

Decided == {"authenticated", "unauthenticated"}

\* the session query of the mount has answered
AuthAnswered == route = "/auth" /\ pc # "mounting" /\ failed # "checkSession"
HomeAnswered == route = "/" /\ "home" \in mounted /\ pc = "idle"
HeaderAnswered == "header" \in mounted /\ headerPc = "idle"

SignedOutNotified == session # null /\ session' = null
SignedInNotified == session' # null /\ session' # session

C26_SubscriptionLifecycle ==
    /\ [](\A c \in {"home", "header"} : subscriptions[c] = IF c \in mounted THEN 1 ELSE 0)
    /\ [][/\ (route = "/" /\ "home" \notin mounted /\ "home" \notin mounted')
               => UNCHANGED <<homeVars, path, pageLoading>>
          /\ ("header" \notin mounted /\ "header" \notin mounted')
               => UNCHANGED headerVars]_vars

C26_Witness ==
    /\ route = "/" /\ "home" \notin mounted
    /\ user = USER_ID /\ session = "u2"
    /\ "header" \in mounted /\ isLoggedIn

\* C27: on Home the loading flag is set whenever a call of fetchEntries is
\* in flight, so that neither the entry list nor "no records yet" is shown
\* while a fetch for the current user is outstanding.
C27_LoadingWhileFetching ==
    (route = "/" /\ "home" \in mounted /\ InFlight(fetches) > 0) => pageLoading

\* C28: the entries held by Home are empty or were fetched for the user held
\* by Home; with no user held (after a sign-out, until the next sign-in)
\* they are empty.
C28_EntriesOfCurrentUser ==
    (route = "/" /\ "home" \in mounted) =>
        \/ homeEntries = <<>>
        \/ /\ user # null
           /\ \A i \in 1..Len(homeEntries) : homeEntries[i].user_id = user

\* C29: the profile held by the Header is null whenever the logged-in flag
\* is false, and when it is not null it is the profile of the signed-in user.
C29_ProfileOfSignedInUser ==
    "header" \in mounted =>
        /\ ~isLoggedIn => userProfile = NO_ROW
        /\ userProfile # NO_ROW => userProfile.id = session

====
